---- MODULE Spec2Model ----
(***************************************************************************)
(* kappalib: pseudonymous profiles, sync codes, cookie sync, the comment   *)
(* moderation pipeline, the page cache and the rate limiter, modelled as a *)
(* state machine over the relational store (users, comments, chapters,     *)
(* novels), the in-process maps (cooldowns, cache, visitors), the avatar   *)
(* semaphore and the requests in flight.                                   *)
(*                                                                         *)
(* Time is counted in seconds.  A step of a request is its local work      *)
(* followed by one access to shared state: one database statement, one     *)
(* Cache.Get or Cache.Set, one access to a map under its mutex, one        *)
(* operation on the semaphore.  A handler is the sequence of its steps,    *)
(* and the steps of different requests interleave freely.  The lower-case  *)
(* operators named after a whole call (generateSyncCode, deleteProfile,    *)
(* ...) give the result of the call when no statement of another request   *)
(* falls between its own.  Columns no code path reads back (avatar_seed,   *)
(* created_at of users, last_active_at, content_html) are left out of the  *)
(* rows, and so is the statement of GetProfile that writes last_active_at. *)
(***************************************************************************)
EXTENDS Integers, Sequences, FiniteSets, TLC

(* ------------------------------ bounds -------------------------------- *)
MaxProfiles == 2
MaxIssues == 2
MaxTicks == 2
MaxComments == 2
MaxCallers == 6
MaxStamp == 2
MaxCached == 2
MaxPage == 3
MaxTotalPages == 12
MaxCount == 3
MaxLists == 2

(* ------------------------- program constants -------------------------- *)
SyncCodeTTL == 900
SyncCodeLen == 8
commentCooldown == 30
sweepAge == 300
semCapacity == 5
pageSize == 12
maxContentLen == 1000
deliveryTimeout == 30
telegramClientTimeout == 10
novelsPageSize == 12
novelsCacheTTL == 300

(* ------------------------------ values -------------------------------- *)
NoProfile == 0
NoTime == -1
NoMessage == 0
NULL == << >>
NoToken == ""

ProfileIDs == 1..MaxProfiles
ProvidedTokens == {"tokA", "tokB", NoToken}

\* generateSyncCode draws 8 symbols of "ABCDEFGHJKLMNPQRSTUVWXYZ23456789"
CodeA == <<"A", "B", "C", "D", "E", "F", "G", "H">>
CodeB == <<"2", "3", "4", "5", "6", "7", "8", "9">>
SyncCodes == {CodeA, CodeB}

\* what a client may type into the login form
LoginInputs ==
    { CodeA, CodeB,
      <<"a", "b", "c", "d", "e", "f", "g", "h">>,
      <<" ">> \o CodeB \o <<" ">>,
      <<"\r">> \o CodeA \o <<"U+00A0">>,
      <<"A", "B", "C", "D", "E", "F", "U+0436">>,
      <<"A", "B", "C", "D", "E", "F", "G", " ">> }

(* --------------------------- string helpers --------------------------- *)
\* A string is a sequence of runes.  An ASCII rune is written as itself, a
\* rune outside ASCII by its code point: "U+0436" and "U+0416" are the
\* Cyrillic letter zhe in lower and upper case, "U+0663" is the Arabic-Indic
\* digit three, "U+0085" and "U+00A0" are the two Latin-1 spaces.
LowerLetters ==
    <<"a", "b", "c", "d", "e", "f", "g", "h", "i", "j", "k", "l", "m",
      "n", "o", "p", "q", "r", "s", "t", "u", "v", "w", "x", "y", "z">>
UpperLetters ==
    <<"A", "B", "C", "D", "E", "F", "G", "H", "I", "J", "K", "L", "M",
      "N", "O", "P", "Q", "R", "S", "T", "U", "V", "W", "X", "Y", "Z">>
AsciiDigits == {"0", "1", "2", "3", "4", "5", "6", "7", "8", "9"}
ZheLower == "U+0436"
ZheUpper == "U+0416"
ArabicThree == "U+0663"
NextLine == "U+0085"
NoBreakSpace == "U+00A0"
VerticalTab == "U+000B"

\* len(s) of Go counts bytes: the runes above U+007F used here take two
byteLen(s) ==
    Len(s) + Cardinality({i \in 1..Len(s) :
                              s[i] \in {ZheLower, ZheUpper, ArabicThree, NextLine, NoBreakSpace}})

\* strings.ToUpper, one rune
upperChar(ch) ==
    CASE ch = "a" -> "A" [] ch = "b" -> "B" [] ch = "c" -> "C" [] ch = "d" -> "D"
      [] ch = "e" -> "E" [] ch = "f" -> "F" [] ch = "g" -> "G" [] ch = "h" -> "H"
      [] ch = "i" -> "I" [] ch = "j" -> "J" [] ch = "k" -> "K" [] ch = "l" -> "L"
      [] ch = "m" -> "M" [] ch = "n" -> "N" [] ch = "o" -> "O" [] ch = "p" -> "P"
      [] ch = "q" -> "Q" [] ch = "r" -> "R" [] ch = "s" -> "S" [] ch = "t" -> "T"
      [] ch = "u" -> "U" [] ch = "v" -> "V" [] ch = "w" -> "W" [] ch = "x" -> "X"
      [] ch = "y" -> "Y" [] ch = "z" -> "Z" [] ch = ZheLower -> ZheUpper
      [] OTHER -> ch

ToUpper(s) == [i \in 1..Len(s) |-> upperChar(s[i])]

\* unicode.IsSpace, the cutset of strings.TrimSpace
isSpace(ch) == ch \in {" ", "\t", "\n", VerticalTab, "\f", "\r", NextLine, NoBreakSpace}

\* the class \s of package regexp: [\t\n\f\r ]
isRegexpSpace(ch) == ch \in {" ", "\t", "\n", "\f", "\r"}

RECURSIVE trimLeft(_)
trimLeft(s) == IF s # << >> /\ isSpace(Head(s)) THEN trimLeft(Tail(s)) ELSE s

RECURSIVE trimRight(_)
trimRight(s) ==
    IF s # << >> /\ isSpace(s[Len(s)]) THEN trimRight(SubSeq(s, 1, Len(s) - 1)) ELSE s

TrimSpace(s) == trimRight(trimLeft(s))

\* what LoginWithSyncCode makes of the typed code
Normalise(input) == ToUpper(TrimSpace(input))

(* ------------------------------- state -------------------------------- *)
VARIABLES
    users,          \* table users: id -> row
    usedIds,        \* ids the store has ever handed out
    comments,       \* table comments: id -> row
    lastComment,    \* userCommentLimiter.lastComment: profile id -> time
    sem,            \* len(imageProcessingSem)
    now,            \* wall clock, seconds
    ticks,          \* clock steps taken
    req,            \* requests in flight: id -> position and locals
    issues,         \* history: [profile, code] of each sync code issued, in order
    loginCount,     \* history: successful logins per issuance
    last,           \* outcome of the last single-step operation
    minioClient,    \* TRUE when the object store client was configured at start
    commentSeq,     \* comment ids the store has handed out
    deleted,        \* history: profiles whose DeleteProfile succeeded
    synced,         \* history: profiles a SyncCookies call with a valid cookie returned ok for
    delivery,       \* sendCommentToTelegram goroutines: comment id -> position
    telegram,       \* TRUE when the bot token and the chat id were set at start
    cache,          \* cache.C.items: key -> [value, expiration]
    executed,       \* the novel listing statements sent to the database
    chapters,       \* table chapters: id -> row
    novels,         \* table novels: id -> row
    visitors,       \* RateLimiter.visitors of one rate limiter
    lists           \* the ChaptersList objects on the heap: address -> Chapters

vars == <<users, usedIds, comments, lastComment, sem, now, ticks, req, issues,
          loginCount, last, minioClient, commentSeq, deleted, synced, delivery, telegram, cache, executed,
                   chapters, novels, visitors, lists>>

EmptyMap == [x \in {} |-> 0]

IdleReq ==
    [pc |-> "idle", op |-> "none", profile |-> NoProfile, token |-> NoToken,
     code |-> NULL, issue |-> 0, issued_at |-> NoTime, at |-> NoTime, bag |-> {},
     chapter |-> "", order |-> "", page |-> 0, count |-> 0, call |-> "", value |-> << >>,
     novel |-> "", prog |-> "", list |-> 0, status |-> "none"]

NoLast == [op |-> "none", status |-> "none"]

\* a finished request keeps the operation and its status only
Done(r, st) == [IdleReq EXCEPT !.pc = "done", !.op = req[r].op, !.status = st]

\* a request takes the lowest free slot (slots are interchangeable)
Free(r) ==
    /\ req[r].pc \in {"idle", "done"}
    /\ \A q \in DOMAIN req : q < r => req[q].pc \notin {"idle", "done"}

\* a request that returns from its first step
Finished(op, st) == [IdleReq EXCEPT !.pc = "done", !.op = op, !.status = st]

\* what the steps of the profile handlers leave alone: everything but users,
\* req, last and the histories issues, deleted and synced
UnchangedByProfiles ==
    UNCHANGED <<usedIds, comments, lastComment, sem, now, ticks, loginCount,
                minioClient, commentSeq, delivery, telegram, cache, executed,
                chapters, novels, visitors, lists>>

(* ------------------------- cookie validation -------------------------- *)
KappaPrefix == <<"k", "a", "p", "p", "a", "l", "i", "b", "_">>
LowerAlnum == {LowerLetters[i] : i \in 1..Len(LowerLetters)} \cup AsciiDigits
UpperAlpha == {UpperLetters[i] : i \in 1..Len(UpperLetters)}

NameTheme == KappaPrefix \o <<"t">>
NameFont == KappaPrefix \o <<"f", "_", "1">>
NameBare == KappaPrefix
NameAlien == <<"e", "v", "i", "l">>
NameUpper == KappaPrefix \o <<"T">>
NameZoom == KappaPrefix \o <<"z", "2">>
NameCyrillic == KappaPrefix \o <<"U+0436">>
CookieNames == {NameTheme, NameFont, NameBare, NameAlien, NameUpper, NameZoom, NameCyrillic}

ValueDark == <<"d", "a">>
ValueLight == <<"l", "-", "1">>
ValueEmpty == << >>
ValueSpace == <<"a", " ", "b">>
CookieValues == {ValueDark, ValueLight, ValueEmpty, ValueSpace}

isPrefix(pre, s) == Len(s) >= Len(pre) /\ SubSeq(s, 1, Len(pre)) = pre

\* cookieNameRegex: ^kappalib_[a-z0-9_]{1,50}$
cookieNameRegex(name) ==
    /\ isPrefix(KappaPrefix, name)
    /\ Len(name) - Len(KappaPrefix) \in 1..50
    /\ \A i \in (Len(KappaPrefix) + 1)..Len(name) : name[i] \in LowerAlnum \cup {"_"}

\* cookieValueRegex: ^[a-zA-Z0-9_\-]{1,200}$
cookieValueRegex(value) ==
    /\ Len(value) \in 1..200
    /\ \A i \in 1..Len(value) : value[i] \in LowerAlnum \cup UpperAlpha \cup {"_", "-"}

\* the validation that lets every entry through
validateCookiesKeepAll(cookies) == cookies

\* a cookie map is a function name -> [value, updated_at]
validateCookies(cookies) ==
    LET ok == {n \in DOMAIN cookies :
                   cookieNameRegex(n) /\ cookieValueRegex(cookies[n].value)}
    IN  [n \in ok |-> cookies[n]]

\* the mutation of mergeCookies that lets a tie overwrite
mergeCookiesTieWins(existing, incoming) ==
    [n \in DOMAIN existing \cup DOMAIN incoming |->
        IF n \in DOMAIN incoming
           /\ (n \notin DOMAIN existing \/ incoming[n].updated_at >= existing[n].updated_at)
        THEN incoming[n] ELSE existing[n]]

\* the merge that returns only the entries it took from incoming
mergeCookiesOnlyTaken(existing, incoming) ==
    [n \in {m \in DOMAIN incoming :
                m \in DOMAIN existing
                => incoming[m].updated_at > existing[m].updated_at} |-> incoming[n]]

\* one iteration of the loop over incoming
mergeStep(result, name, incomingCv) ==
    IF name \in DOMAIN result
    THEN IF incomingCv.updated_at > result[name].updated_at
         THEN [result EXCEPT ![name] = incomingCv]
         ELSE result
    ELSE [n \in DOMAIN result \cup {name} |-> IF n = name THEN incomingCv ELSE result[n]]

RECURSIVE mergeLoop(_, _, _)
mergeLoop(result, incoming, todo) ==
    IF todo = {} THEN result
    ELSE LET name == CHOOSE n \in todo : TRUE
         IN  mergeLoop(mergeStep(result, name, incoming[name]), incoming, todo \ {name})

mergeCookies(existing, incoming) == mergeLoop(existing, incoming, DOMAIN incoming)

\* json.Marshal / json.Unmarshal of a cookie map: the JSONB object is the set
\* of its members
marshalCookies(cookies) ==
    {[name |-> n, value |-> cookies[n].value, updated_at |-> cookies[n].updated_at] :
        n \in DOMAIN cookies}

unmarshalCookies(json) ==
    [n \in {m.name : m \in json} |->
        LET m == CHOOSE x \in json : x.name = n
        IN  [value |-> m.value, updated_at |-> m.updated_at]]

(* --------------------------- store: users ----------------------------- *)
GeneratedName == <<"W", "o", "l", "f">>

NewRow(tok, name) ==
    [secret_token |-> tok, display_name |-> name, has_custom_avatar |-> FALSE,
     cookies |-> {}, sync_code |-> NULL, sync_code_expires_at |-> NoTime,
     issue |-> 0, issued_at |-> NoTime]

\* the comparison dropped: any token passes for an existing profile
verifySecretTokenAnyToken(profileID, providedToken) == profileID \in DOMAIN users

verifySecretToken(profileID, providedToken) ==
    /\ profileID \in DOMAIN users
    /\ users[profileID].secret_token = providedToken

\* expiry compared with >= instead of >
selectBySyncCodeInclusive(syncCode) ==
    {p \in DOMAIN users :
        /\ users[p].sync_code # NULL
        /\ users[p].sync_code = syncCode
        /\ users[p].sync_code_expires_at # NoTime
        /\ users[p].sync_code_expires_at >= now}

\* SELECT ... FROM users WHERE sync_code = $1 AND sync_code_expires_at > now()
selectBySyncCode(syncCode) ==
    {p \in DOMAIN users :
        /\ users[p].sync_code # NULL
        /\ users[p].sync_code = syncCode
        /\ users[p].sync_code_expires_at # NoTime
        /\ users[p].sync_code_expires_at > now}

\* the UPDATE applied only when no code is pending
setSyncCodeKeepPending(profileID, syncCode, expiresAt, issue) ==
    IF profileID \in DOMAIN users /\ users[profileID].sync_code = NULL
    THEN [users EXCEPT ![profileID].sync_code = syncCode,
                       ![profileID].sync_code_expires_at = expiresAt,
                       ![profileID].issue = issue,
                       ![profileID].issued_at = now]
    ELSE users

\* UPDATE users SET sync_code = $1, sync_code_expires_at = $2 WHERE id = $3
setSyncCode(profileID, syncCode, expiresAt, issue) ==
    IF profileID \in DOMAIN users
    THEN [users EXCEPT ![profileID].sync_code = syncCode,
                       ![profileID].sync_code_expires_at = expiresAt,
                       ![profileID].issue = issue,
                       ![profileID].issued_at = now]
    ELSE users

\* users.sync_code UNIQUE: no other row may hold the value
syncCodeUnique(profileID, syncCode) ==
    \A q \in DOMAIN users \ {profileID} : users[q].sync_code # syncCode

\* UPDATE users SET sync_code = NULL, sync_code_expires_at = NULL WHERE id = $1
clearSyncCode(profileID) ==
    IF profileID \in DOMAIN users
    THEN [users EXCEPT ![profileID].sync_code = NULL,
                       ![profileID].sync_code_expires_at = NoTime,
                       ![profileID].issue = 0,
                       ![profileID].issued_at = NoTime]
    ELSE users

LatestIssue(profileID) ==
    LET mine == {i \in 1..Len(issues) : issues[i].profile = profileID}
    IN  IF mine = {} THEN 0 ELSE CHOOSE i \in mine : \A j \in mine : j <= i

(* ------------------------- profile operations ------------------------- *)
ReqIds == DOMAIN req

Out(op, st) == [NoLast EXCEPT !.op = op, !.status = st]

\* generateSecretToken: 32 random bytes, a value no other profile has
TokenSeq == <<"tokA", "tokB", "tokC", "tokD">>
NewToken == TokenSeq[Cardinality(usedIds) + 1]

\* CreateProfile: CAPTCHA, then INSERT ... RETURNING; ids are never reused
CreateProfile(captchaOK) ==
    /\ IF ~captchaOK
       THEN /\ last' = Out("create", "captcha verification failed")
            /\ UNCHANGED <<users, usedIds>>
       ELSE LET id == Cardinality(usedIds) + 1
            IN  /\ id \in ProfileIDs
                /\ users' = [p \in DOMAIN users \cup {id} |->
                                IF p = id THEN NewRow(NewToken, GeneratedName)
                                ELSE users[p]]
                /\ usedIds' = usedIds \cup {id}
                /\ last' = Out("create", "ok")
    /\ UNCHANGED <<comments, lastComment, sem, now, ticks, req, issues, loginCount,
                   minioClient, commentSeq, deleted, synced, delivery, telegram, cache, executed,
                   chapters, novels, visitors, lists>>

\* GetProfile: [status, name]; the public columns, never the token
getProfile(profileID) ==
    IF profileID \in DOMAIN users
    THEN [status |-> "ok", name |-> users[profileID].display_name]
    ELSE [status |-> "not found", name |-> << >>]

GetProfile(profileID) ==
    /\ last' = Out("get", getProfile(profileID).status)
    /\ UNCHANGED <<users, usedIds, comments, lastComment, sem, now, ticks, req, issues,
                   loginCount, minioClient, commentSeq, deleted, synced, delivery, telegram, cache, executed,
                   chapters, novels, visitors, lists>>

\* GenerateSyncCode, the UPDATE: an UPDATE that matches no row is no error;
\* [status, users]
generateSyncCodeUpdate(profileID, syncCode) ==
    IF profileID \notin DOMAIN users
    THEN [status |-> "ok", users |-> users]
    ELSE IF ~syncCodeUnique(profileID, syncCode)
    THEN [status |-> "unique violation", users |-> users]
    ELSE [status |-> "ok",
          users |-> setSyncCode(profileID, syncCode, now + SyncCodeTTL, Len(issues) + 1)]

\* GenerateSyncCode run with no statement of another request in between:
\* authenticate, draw a code, overwrite the pending one; [status, users]
generateSyncCode(profileID, secretToken, syncCode) ==
    IF ~verifySecretToken(profileID, secretToken)
    THEN [status |-> "invalid secret token", users |-> users]
    ELSE generateSyncCodeUpdate(profileID, syncCode)

\* GenerateSyncCode, first statement: the SELECT of verifySecretToken
GenerateSyncCodeVerify(r, profileID, secretToken) ==
    /\ Free(r)
    /\ IF ~verifySecretToken(profileID, secretToken)
       THEN /\ req' = [req EXCEPT ![r] = Finished("generate", "invalid secret token")]
            /\ last' = Out("generate", "invalid secret token")
       ELSE /\ req' = [req EXCEPT ![r] = [IdleReq EXCEPT !.pc = "generate_update",
                                                         !.op = "generate",
                                                         !.profile = profileID]]
            /\ UNCHANGED last
    /\ UNCHANGED <<users, issues, deleted, synced>>
    /\ UnchangedByProfiles

\* GenerateSyncCode, second statement: the code is drawn, the UPDATE is sent
GenerateSyncCodeUpdate(r, syncCode) ==
    /\ req[r].pc = "generate_update"
    /\ LET g == generateSyncCodeUpdate(req[r].profile, syncCode)
           stored == g.status = "ok" /\ req[r].profile \in DOMAIN users
       IN  /\ stored => Len(issues) < MaxIssues
           /\ users' = g.users
           /\ issues' = IF stored
                        THEN Append(issues, [profile |-> req[r].profile, code |-> syncCode])
                        ELSE issues
           /\ req' = [req EXCEPT ![r] = Done(r, g.status)]
           /\ last' = Out("generate", g.status)
    /\ UNCHANGED <<deleted, synced>>
    /\ UnchangedByProfiles

\* LoginWithSyncCode after the normalisation: check the length, SELECT; the
\* request's next position and locals
loginSelectCode(syncCode) ==
    LET hit == selectBySyncCode(syncCode)
        start == [IdleReq EXCEPT !.op = "login", !.code = syncCode]
    IN  IF byteLen(syncCode) # SyncCodeLen
        THEN [start EXCEPT !.pc = "done", !.status = "invalid sync code format"]
        ELSE IF hit = {}
        THEN [start EXCEPT !.pc = "done", !.status = "invalid or expired sync code",
                           !.at = now]
        ELSE LET p == CHOOSE q \in hit : TRUE
             IN  [start EXCEPT !.pc = "login_clear", !.profile = p, !.at = now,
                               !.token = users[p].secret_token,
                               !.issue = users[p].issue,
                               !.issued_at = users[p].issued_at,
                               !.bag = users[p].cookies]

\* LoginWithSyncCode, first statement: normalise, check the length, SELECT
loginSelect(input) == loginSelectCode(Normalise(input))

LoginSelect(r, input) ==
    /\ Free(r)
    /\ req' = [req EXCEPT ![r] = loginSelect(input)]
    /\ UNCHANGED <<users, usedIds, comments, lastComment, sem, now, ticks, issues,
                   loginCount, last, minioClient, commentSeq, deleted, synced,
                   delivery, telegram, cache, executed,
                   chapters, novels, visitors, lists>>

\* the LoginResponse of a request whose SELECT found a row: the profile, the
\* secret token, the cookies column decoded by json.Unmarshal
loginResponse(l) ==
    [profile |-> l.profile, secret_token |-> l.token, cookies |-> unmarshalCookies(l.bag)]

\* LoginWithSyncCode, second statement: clear the code, return the response
LoginClear(r) ==
    /\ req[r].pc = "login_clear"
    /\ users' = clearSyncCode(req[r].profile)
    /\ req' = [req EXCEPT ![r] = Done(r, "ok")]
    /\ loginCount' = [loginCount EXCEPT ![req[r].issue] = @ + 1]
    /\ UNCHANGED <<usedIds, comments, lastComment, sem, now, ticks, issues, last,
                   minioClient, commentSeq, deleted, synced, delivery, telegram, cache, executed,
                   chapters, novels, visitors, lists>>

(* ---------------------------- display name ---------------------------- *)
\* \p{L} and \p{N}, over the runes of the model
Letters == (LowerAlnum \ AsciiDigits) \cup UpperAlpha \cup {ZheLower, ZheUpper}
Digits == AsciiDigits \cup {ArabicThree}

NameBob == <<"B", "o", "b">>
NameTagged == <<"<", "b", ">", "B", "o", "b", "<", "/", "b", ">">>
NameSpaced == <<" ", "a", " ", "\t", "1", " ">>
NameBang == <<"a", "!", "b">>
NameAmp == <<"a", "&", "b">>
NameBlank == <<" ", "\t">>
Name15 == [i \in 1..15 |-> "a"]
Name16 == [i \in 1..16 |-> "a"]
Name16Tagged == <<"<", "b", ">">> \o Name16
Name15Tagged == <<"<", "b", ">">> \o Name15
NameZed == <<"z", "U+0416", "2", "U+0663">>
NameReturn == <<"\r", "a", "\f", "\r", "b", "U+00A0">>
NameTab == <<"a", "U+000B", "b">>
NameQuote == <<"a", "'", "b">>
Name8Cyrillic == [i \in 1..8 |-> "U+0436"]
NameInputs == {NameBob, NameTagged, NameSpaced, NameBang, NameAmp, NameBlank, << >>,
               Name15, Name16, Name16Tagged, Name15Tagged,
               NameZed, NameReturn, NameTab, NameQuote, Name8Cyrillic}

RECURSIVE skipTag(_)
\* the rest of the input after the ">" that closes a tag; nothing when unclosed
skipTag(s) ==
    IF s = << >> THEN << >>
    ELSE IF Head(s) = ">" THEN Tail(s) ELSE skipTag(Tail(s))

RECURSIVE Sanitize(_)
\* strictPolicy.Sanitize: tags are dropped, text is kept with &, < and > escaped
Sanitize(s) ==
    IF s = << >> THEN << >>
    ELSE IF Head(s) = "<" /\ Len(s) > 1 /\ s[2] \in (LowerAlnum \ AsciiDigits) \cup UpperAlpha \cup {"/"}
         THEN Sanitize(skipTag(Tail(s)))
    ELSE IF Head(s) = "<" THEN <<"&", "l", "t", ";">> \o Sanitize(Tail(s))
    ELSE IF Head(s) = ">" THEN <<"&", "g", "t", ";">> \o Sanitize(Tail(s))
    ELSE IF Head(s) = "&" THEN <<"&", "a", "m", "p", ";">> \o Sanitize(Tail(s))
    ELSE IF Head(s) = "'" THEN <<"&", "#", "3", "9", ";">> \o Sanitize(Tail(s))
    ELSE <<Head(s)>> \o Sanitize(Tail(s))

RECURSIVE skipRegexpSpaces(_)
skipRegexpSpaces(s) ==
    IF s # << >> /\ isRegexpSpace(Head(s)) THEN skipRegexpSpaces(Tail(s)) ELSE s

RECURSIVE collapseSpaces(_)
\* multiSpaceRegex.ReplaceAllString(name, " ")
collapseSpaces(s) ==
    IF s = << >> THEN << >>
    ELSE IF isRegexpSpace(Head(s)) THEN <<" ">> \o collapseSpaces(skipRegexpSpaces(s))
    ELSE <<Head(s)>> \o collapseSpaces(Tail(s))

\* displayNameRegex: ^[\p{L}\p{N} ]+$
displayNameRegex(name) ==
    /\ Len(name) >= 1
    /\ \A i \in 1..Len(name) : name[i] \in Letters \cup Digits \cup {" "}

\* the validation without the length check
ValidateDisplayNameAnyLength(input) ==
    LET name == TrimSpace(collapseSpaces(Sanitize(input)))
    IN  IF Len(name) = 0 THEN [ok |-> FALSE, name |-> << >>, err |-> "name is empty"]
        ELSE IF ~displayNameRegex(name)
             THEN [ok |-> FALSE, name |-> << >>, err |-> "invalid characters"]
        ELSE [ok |-> TRUE, name |-> name, err |-> ""]

\* ValidateDisplayName: [ok, name, err]
ValidateDisplayName(input) ==
    LET name == TrimSpace(collapseSpaces(Sanitize(input)))
    IN  IF Len(name) = 0 THEN [ok |-> FALSE, name |-> << >>, err |-> "name is empty"]
        ELSE IF Len(name) > 15
             THEN [ok |-> FALSE, name |-> << >>, err |-> "name too long"]
        ELSE IF ~displayNameRegex(name)
             THEN [ok |-> FALSE, name |-> << >>, err |-> "invalid characters"]
        ELSE [ok |-> TRUE, name |-> name, err |-> ""]

\* UPDATE users SET display_name = $1 WHERE id = $2
setDisplayName(us, profileID, validName) ==
    IF profileID \in DOMAIN us
    THEN [us EXCEPT ![profileID].display_name = validName]
    ELSE us

\* the status of return GetProfile(ctx, profileID): the SELECT of a missing
\* row is an error
readBack(us, profileID) == IF profileID \in DOMAIN us THEN "ok" ELSE "not found"

\* UpdateDisplayName run with no statement of another request in between:
\* authenticate, validate, UPDATE, read the profile back; [status, users]
updateDisplayName(profileID, secretToken, newName) ==
    LET v == ValidateDisplayName(newName)
    IN  IF ~verifySecretToken(profileID, secretToken)
        THEN [status |-> "invalid secret token", users |-> users]
        ELSE IF ~v.ok
        THEN [status |-> "invalid name", users |-> users]
        ELSE LET after == setDisplayName(users, profileID, v.name)
             IN  [status |-> readBack(after, profileID), users |-> after]

\* UpdateDisplayName, first statement: the SELECT of verifySecretToken, then
\* the validation of the name
UpdateDisplayNameVerify(r, profileID, secretToken, newName) ==
    /\ Free(r)
    /\ LET v == ValidateDisplayName(newName)
           st == IF ~verifySecretToken(profileID, secretToken)
                 THEN "invalid secret token"
                 ELSE IF ~v.ok THEN "invalid name" ELSE "ok"
       IN  IF st # "ok"
           THEN /\ req' = [req EXCEPT ![r] = Finished("rename", st)]
                /\ last' = Out("rename", st)
           ELSE /\ req' = [req EXCEPT ![r] = [IdleReq EXCEPT !.pc = "rename_update",
                                                             !.op = "rename",
                                                             !.profile = profileID,
                                                             !.code = v.name]]
                /\ UNCHANGED last
    /\ UNCHANGED <<users, issues, deleted, synced>>
    /\ UnchangedByProfiles

\* UpdateDisplayName, second statement: the UPDATE
UpdateDisplayNameUpdate(r) ==
    /\ req[r].pc = "rename_update"
    /\ users' = setDisplayName(users, req[r].profile, req[r].code)
    /\ req' = [req EXCEPT ![r].pc = "rename_read"]
    /\ UNCHANGED <<last, issues, deleted, synced>>
    /\ UnchangedByProfiles

\* UpdateDisplayName, third statement: the SELECT of GetProfile (the UPDATE of
\* last_active_at that follows it writes a column the rows leave out)
UpdateDisplayNameRead(r) ==
    /\ req[r].pc = "rename_read"
    /\ req' = [req EXCEPT ![r] = Done(r, readBack(users, req[r].profile))]
    /\ last' = Out("rename", readBack(users, req[r].profile))
    /\ UNCHANGED <<users, issues, deleted, synced>>
    /\ UnchangedByProfiles

(* ---------------------------- cookie sync ----------------------------- *)
Cv(v, t) == [value |-> v, updated_at |-> t]
One(n, cv) == [x \in {n} |-> cv]
Two(n1, cv1, n2, cv2) == [x \in {n1, n2} |-> IF x = n1 THEN cv1 ELSE cv2]

CookieInputs ==
    { One(NameTheme, Cv(ValueDark, 1)),
      One(NameTheme, Cv(ValueLight, 1)),
      One(NameTheme, Cv(ValueLight, 2)),
      One(NameTheme, Cv(ValueSpace, 2)),
      Two(NameFont, Cv(ValueDark, 1), NameAlien, Cv(ValueDark, 2)),
      Two(NameBare, Cv(ValueDark, 1), NameUpper, Cv(ValueLight, 2)),
      One(NameFont, Cv(ValueEmpty, 2)),
      [x \in {} |-> Cv(ValueDark, 1)] }

\* SyncCookies, the SELECT of the cookies column and the merge: the request's
\* next position and locals; a missing row is 'profile not found'
syncCookiesSelect(profileID, validBag) ==
    LET start == [IdleReq EXCEPT !.op = "sync", !.profile = profileID]
    IN  IF profileID \notin DOMAIN users
        THEN [start EXCEPT !.pc = "done", !.status = "profile not found"]
        ELSE LET existing == unmarshalCookies(users[profileID].cookies)
                 merged == mergeCookies(existing, unmarshalCookies(validBag))
             IN  [start EXCEPT !.pc = "sync_write", !.bag = marshalCookies(merged),
                               !.count = Cardinality(validBag)]

\* SyncCookies up to the merge, run with no statement of another request in
\* between: validate, authenticate, SELECT cookies, merge
syncCookiesRead(profileID, secretToken, cookies) ==
    LET validCookies == validateCookies(cookies)
        start == [IdleReq EXCEPT !.op = "sync", !.profile = profileID]
    IN  IF ~verifySecretToken(profileID, secretToken)
        THEN [start EXCEPT !.pc = "done", !.status = "invalid secret token"]
        ELSE syncCookiesSelect(profileID, marshalCookies(validCookies))

\* SyncCookies, first statement: validateCookies, then the SELECT of
\* verifySecretToken
SyncCookiesVerify(r, profileID, secretToken, cookies) ==
    /\ Free(r)
    /\ req' = [req EXCEPT ![r] =
                  IF ~verifySecretToken(profileID, secretToken)
                  THEN Finished("sync", "invalid secret token")
                  ELSE [IdleReq EXCEPT !.pc = "sync_read", !.op = "sync",
                                       !.profile = profileID,
                                       !.bag = marshalCookies(validateCookies(cookies))]]
    /\ UNCHANGED <<users, last, issues, deleted, synced>>
    /\ UnchangedByProfiles

\* SyncCookies, second statement: SELECT cookies, then the merge in memory
SyncCookiesRead(r) ==
    /\ req[r].pc = "sync_read"
    /\ req' = [req EXCEPT ![r] = syncCookiesSelect(req[r].profile, req[r].bag)]
    /\ UNCHANGED <<users, last, issues, deleted, synced>>
    /\ UnchangedByProfiles

\* SyncCookies, third statement: the UPDATE of the merged bag, and the return
\* of it
SyncCookiesWrite(r) ==
    /\ req[r].pc = "sync_write"
    /\ users' = IF req[r].profile \in DOMAIN users
                THEN [users EXCEPT ![req[r].profile].cookies = req[r].bag]
                ELSE users
    /\ req' = [req EXCEPT ![r] = Done(r, "ok")]
    /\ synced' = IF req[r].count > 0 THEN synced \cup {req[r].profile} ELSE synced
    /\ UNCHANGED <<last, issues, deleted>>
    /\ UnchangedByProfiles

\* mergeCookies applied to the stored bag and the bag a request carries
MergeCookies(r, profileID) ==
    /\ req[r].pc = "merge"
    /\ profileID \in DOMAIN users
    /\ LET merged == mergeCookies(unmarshalCookies(users[profileID].cookies),
                                  unmarshalCookies(req[r].bag))
       IN  users' = [users EXCEPT ![profileID].cookies = marshalCookies(merged)]
    /\ req' = [req EXCEPT ![r].pc = "merged", ![r].profile = profileID]
    /\ UNCHANGED <<usedIds, comments, lastComment, sem, now, ticks, issues, loginCount,
                   last, minioClient, commentSeq, deleted, synced, delivery, telegram, cache, executed,
                   chapters, novels, visitors, lists>>

(* ------------------------------ deletion ------------------------------ *)
\* the DELETE that removes nothing
deleteUserKeepRow(profileID) == [users |-> users, comments |-> comments]

\* DELETE FROM users WHERE id = $1, with comments.user_id ON DELETE CASCADE
deleteUser(profileID) ==
    [users |-> [p \in DOMAIN users \ {profileID} |-> users[p]],
     comments |-> [c \in {d \in DOMAIN comments : comments[d].user_id # profileID} |->
                      comments[c]]]

\* DeleteProfile, the DELETE and the test of RowsAffected;
\* [status, users, comments]
deleteProfileDelete(profileID) ==
    IF profileID \notin DOMAIN users
    THEN [status |-> "profile not found", users |-> users, comments |-> comments]
    ELSE LET after == deleteUser(profileID)
         IN  [status |-> "ok", users |-> after.users, comments |-> after.comments]

\* DeleteProfile run with no statement of another request in between:
\* authenticate, DELETE, report; [status, users, comments]
deleteProfile(profileID, secretToken) ==
    IF ~verifySecretToken(profileID, secretToken)
    THEN [status |-> "invalid secret token", users |-> users, comments |-> comments]
    ELSE deleteProfileDelete(profileID)

\* DeleteProfile, first statement: the SELECT of verifySecretToken
DeleteProfileVerify(r, profileID, secretToken) ==
    /\ Free(r)
    /\ IF ~verifySecretToken(profileID, secretToken)
       THEN /\ req' = [req EXCEPT ![r] = Finished("delete", "invalid secret token")]
            /\ last' = Out("delete", "invalid secret token")
       ELSE /\ req' = [req EXCEPT ![r] = [IdleReq EXCEPT !.pc = "delete_row",
                                                         !.op = "delete",
                                                         !.profile = profileID]]
            /\ UNCHANGED last
    /\ UNCHANGED <<users, comments, deleted, synced>>
    /\ UNCHANGED <<usedIds, lastComment, sem, now, ticks, issues, loginCount,
                   minioClient, commentSeq, delivery, telegram, cache, executed,
                   chapters, novels, visitors, lists>>

\* DeleteProfile, second statement: the DELETE
DeleteProfileDelete(r) ==
    /\ req[r].pc = "delete_row"
    /\ LET d == deleteProfileDelete(req[r].profile)
       IN  /\ users' = d.users
           /\ comments' = d.comments
           /\ deleted' = IF d.status = "ok" THEN deleted \cup {req[r].profile} ELSE deleted
           /\ req' = [req EXCEPT ![r] = Done(r, d.status)]
           /\ last' = Out("delete", d.status)
    /\ UNCHANGED <<usedIds, lastComment, sem, now, ticks, issues, synced, loginCount,
                   minioClient, commentSeq, delivery, telegram, cache, executed,
                   chapters, novels, visitors, lists>>

(* ------------------------------- avatar ------------------------------- *)
\* the semaphore send that never blocks
semHasRoomUnbounded == TRUE

\* imageProcessingSem <- struct{}{} can proceed
semHasRoom == sem < semCapacity

\* UpdateAvatar up to the select: client check, authenticate; the request's
\* next position and locals
updateAvatarStart(profileID, secretToken) ==
    LET start == [IdleReq EXCEPT !.op = "avatar", !.profile = profileID]
    IN  IF ~minioClient
        THEN [start EXCEPT !.pc = "done", !.status = "s3 not configured"]
        ELSE IF ~verifySecretToken(profileID, secretToken)
        THEN [start EXCEPT !.pc = "done", !.status = "invalid secret token"]
        ELSE [start EXCEPT !.pc = "av_wait"]

UpdateAvatarStart(r, profileID, secretToken) ==
    /\ Free(r)
    /\ req' = [req EXCEPT ![r] = updateAvatarStart(profileID, secretToken)]
    /\ UNCHANGED <<users, usedIds, comments, lastComment, sem, now, ticks, issues,
                   loginCount, last, minioClient, commentSeq, deleted, synced,
                   delivery, telegram, cache, executed,
                   chapters, novels, visitors, lists>>

\* select, case imageProcessingSem <- struct{}{}
UpdateAvatarAcquire(r) ==
    /\ req[r].pc = "av_wait"
    /\ semHasRoom
    /\ sem' = sem + 1
    /\ req' = [req EXCEPT ![r].pc = "av_process"]
    /\ UNCHANGED <<users, usedIds, comments, lastComment, now, ticks, issues, loginCount,
                   last, minioClient, commentSeq, deleted, synced, delivery, telegram, cache, executed,
                   chapters, novels, visitors, lists>>

\* select, case <-ctx.Done()
UpdateAvatarCancel(r) ==
    /\ req[r].pc = "av_wait"
    /\ req' = [req EXCEPT ![r] = Done(r, "context canceled")]
    /\ UNCHANGED <<users, usedIds, comments, lastComment, sem, now, ticks, issues,
                   loginCount, last, minioClient, commentSeq, deleted, synced,
                   delivery, telegram, cache, executed,
                   chapters, novels, visitors, lists>>

\* the return that does not give the slot back
semAfterReturnKeepsSlot(outcome) == sem

\* defer func() { <-imageProcessingSem }(): runs on every return after the
\* slot was taken
semAfterReturn(outcome) == sem - 1

\* processAvatar and PutObject, which touch no shared state, then the UPDATE
\* of has_custom_avatar; a failure of any of the three returns, and the
\* deferred release runs
UpdateAvatarStore(r, outcome) ==
    /\ req[r].pc = "av_process"
    /\ LET p == req[r].profile
       IN  IF outcome = "ok"
           THEN /\ users' = IF p \in DOMAIN users
                            THEN [users EXCEPT ![p].has_custom_avatar = TRUE]
                            ELSE users
                /\ req' = [req EXCEPT ![r].pc = "av_read"]
                /\ UNCHANGED sem
           ELSE /\ users' = users
                /\ req' = [req EXCEPT ![r] = Done(r, outcome)]
                /\ sem' = semAfterReturn(outcome)
    /\ UNCHANGED <<usedIds, comments, lastComment, now, ticks, issues, loginCount, last,
                   minioClient, commentSeq, deleted, synced, delivery, telegram, cache, executed,
                   chapters, novels, visitors, lists>>

\* the SELECT of GetProfile; its result is what UpdateAvatar returns
UpdateAvatarRead(r) ==
    /\ req[r].pc = "av_read"
    /\ req' = [req EXCEPT ![r].pc = "av_return",
                          ![r].status = readBack(users, req[r].profile)]
    /\ UNCHANGED <<users, usedIds, comments, lastComment, sem, now, ticks, issues,
                   loginCount, last, minioClient, commentSeq, deleted, synced, delivery, telegram,
                   cache, executed, chapters, novels, visitors, lists>>

\* the return of UpdateAvatar: the deferred release runs
UpdateAvatarReturn(r) ==
    /\ req[r].pc = "av_return"
    /\ req' = [req EXCEPT ![r] = Done(r, req[r].status)]
    /\ sem' = semAfterReturn(req[r].status)
    /\ UNCHANGED <<users, usedIds, comments, lastComment, now, ticks, issues, loginCount,
                   last, minioClient, commentSeq, deleted, synced, delivery, telegram, cache, executed,
                   chapters, novels, visitors, lists>>

(* ------------------------------ comments ------------------------------ *)
Min(a, b) == IF a < b THEN a ELSE b

ChapterIDs == {"chp_1", "chp_2"}
ChapterInputs == ChapterIDs \cup {"chp_none"}
ContentLens == {0, 1, maxContentLen, maxContentLen + 1}
CommentStatuses == {"pending", "approved", "rejected"}
Pages == {1, 2}

\* checkCommentRateLimit: TRUE when the author may submit
checkCommentRateLimit(userID) ==
    ~(userID \in DOMAIN lastComment /\ now - lastComment[userID] < commentCooldown)

\* recordCommentTime
recordCommentTime(userID) ==
    [u \in DOMAIN lastComment \cup {userID} |-> IF u = userID THEN now ELSE lastComment[u]]

\* chapterExists: SELECT EXISTS(SELECT 1 FROM chapters WHERE id = $1)
chapterExists(chapterID) == chapterID \in DOMAIN chapters

\* CreateComment up to the INSERT, run with no step of another request in
\* between: length check, cooldown check, CAPTCHA, chapter lookup,
\* authentication; "" when every check passes
createCommentCheck(profileID, secretToken, chapterID, contentLen, captchaOK) ==
    IF contentLen = 0 \/ contentLen > maxContentLen THEN "invalid content length"
    ELSE IF ~checkCommentRateLimit(profileID) THEN "rate limit exceeded"
    ELSE IF ~captchaOK THEN "captcha verification failed"
    ELSE IF ~chapterExists(chapterID) THEN "chapter not found"
    ELSE IF ~verifySecretToken(profileID, secretToken) THEN "invalid secret token"
    ELSE ""

\* the context a delivery would get from the request that created the comment
deliveryContextOfRequest == "request"

\* go sendCommentToTelegram(context.Background(), &comment)
deliveryContext == "background"

\* the goroutine starts: context.WithTimeout(ctx, 30*time.Second)
spawnDelivery(commentID) ==
    [c \in DOMAIN delivery \cup {commentID} |->
        IF c = commentID
        THEN [pc |-> "running", started_at |-> now, ctx |-> deliveryContext]
        ELSE delivery[c]]

\* the row queryCommentsCreate stores: status defaults to pending
newComment(profileID, chapterID) ==
    [chapter_id |-> chapterID, user_id |-> profileID, status |-> "pending",
     created_at |-> now, telegram_message_id |-> NoMessage]

\* the INSERT that reports a failure when the notification cannot be sent
createCommentInsertAwaitsDelivery(profileID, chapterID) ==
    IF profileID \notin DOMAIN users \/ chapterID \notin DOMAIN chapters \/ ~telegram
    THEN [status |-> "insert failed", comments |-> comments, lastComment |-> lastComment]
    ELSE [status |-> "ok",
          comments |-> [c \in DOMAIN comments \cup {commentSeq + 1} |->
                           IF c = commentSeq + 1 THEN newComment(profileID, chapterID)
                           ELSE comments[c]],
          lastComment |-> lastComment]

\* the INSERT that notes the time of the attempt
createCommentInsertRecordsAttempt(profileID, chapterID) ==
    IF profileID \notin DOMAIN users \/ chapterID \notin DOMAIN chapters
    THEN [status |-> "insert failed", comments |-> comments,
          lastComment |-> recordCommentTime(profileID)]
    ELSE [status |-> "ok",
          comments |-> [c \in DOMAIN comments \cup {commentSeq + 1} |->
                           IF c = commentSeq + 1 THEN newComment(profileID, chapterID)
                           ELSE comments[c]],
          lastComment |-> recordCommentTime(profileID)]

\* CreateComment, the INSERT (user_id and chapter_id are foreign keys); the
\* cooldown map is not written here; [status, comments, lastComment]
createCommentInsert(profileID, chapterID) ==
    IF profileID \notin DOMAIN users \/ chapterID \notin DOMAIN chapters
    THEN [status |-> "insert failed", comments |-> comments, lastComment |-> lastComment]
    ELSE [status |-> "ok",
          comments |-> [c \in DOMAIN comments \cup {commentSeq + 1} |->
                           IF c = commentSeq + 1 THEN newComment(profileID, chapterID)
                           ELSE comments[c]],
          lastComment |-> lastComment]

\* what the steps of CreateComment leave alone: everything but req, last,
\* comments, commentSeq, lastComment and delivery
UnchangedByComments ==
    UNCHANGED <<users, usedIds, sem, now, ticks, issues, loginCount, minioClient,
                deleted, synced, telegram, cache, executed, chapters, novels, visitors, lists>>

\* CreateComment, first step: the length check, then checkCommentRateLimit
\* under the mutex of userCommentLimiter
CreateCommentLimit(r, profileID, secretToken, chapterID, contentLen) ==
    /\ Free(r)
    /\ LET st == IF contentLen = 0 \/ contentLen > maxContentLen
                 THEN "invalid content length"
                 ELSE IF ~checkCommentRateLimit(profileID) THEN "rate limit exceeded"
                 ELSE ""
       IN  IF st # ""
           THEN /\ req' = [req EXCEPT ![r] = Finished("comment", st)]
                /\ last' = Out("comment", st)
           ELSE /\ req' = [req EXCEPT ![r] = [IdleReq EXCEPT !.pc = "cc_chapter",
                                                             !.op = "comment",
                                                             !.profile = profileID,
                                                             !.token = secretToken,
                                                             !.chapter = chapterID]]
                /\ UNCHANGED last
    /\ UNCHANGED <<comments, commentSeq, lastComment, delivery>>
    /\ UnchangedByComments

\* CreateComment, second step: the answer of verifyCommentsTurnstile, then
\* the SELECT of chapterExists
CreateCommentChapter(r, captchaOK) ==
    /\ req[r].pc = "cc_chapter"
    /\ LET st == IF ~captchaOK THEN "captcha verification failed"
                 ELSE IF ~chapterExists(req[r].chapter) THEN "chapter not found"
                 ELSE ""
       IN  IF st # ""
           THEN /\ req' = [req EXCEPT ![r] = Done(r, st)]
                /\ last' = Out("comment", st)
           ELSE /\ req' = [req EXCEPT ![r].pc = "cc_verify"]
                /\ UNCHANGED last
    /\ UNCHANGED <<comments, commentSeq, lastComment, delivery>>
    /\ UnchangedByComments

\* CreateComment, third step: the SELECT of verifySecretToken
CreateCommentVerify(r) ==
    /\ req[r].pc = "cc_verify"
    /\ IF ~verifySecretToken(req[r].profile, req[r].token)
       THEN /\ req' = [req EXCEPT ![r] = Done(r, "invalid secret token")]
            /\ last' = Out("comment", "invalid secret token")
       ELSE /\ req' = [req EXCEPT ![r].pc = "cc_insert", ![r].token = NoToken]
            /\ UNCHANGED last
    /\ UNCHANGED <<comments, commentSeq, lastComment, delivery>>
    /\ UnchangedByComments

\* CreateComment, fourth step: the INSERT; an error returns
CreateCommentInsert(r) ==
    /\ req[r].pc = "cc_insert"
    /\ LET ins == createCommentInsert(req[r].profile, req[r].chapter)
       IN  /\ ins.status = "ok" => commentSeq < MaxComments
           /\ comments' = ins.comments
           /\ lastComment' = ins.lastComment
           /\ commentSeq' = IF ins.status = "ok" THEN commentSeq + 1 ELSE commentSeq
           /\ IF ins.status = "ok"
              THEN /\ req' = [req EXCEPT ![r].pc = "cc_author", ![r].issue = commentSeq + 1]
                   /\ UNCHANGED last
              ELSE /\ req' = [req EXCEPT ![r] = Done(r, ins.status)]
                   /\ last' = Out("comment", ins.status)
    /\ UNCHANGED delivery
    /\ UnchangedByComments

\* CreateComment, fifth step: the SELECT of the author's public columns; its
\* error is ignored and leaves the three fields of the answer empty
CreateCommentAuthor(r) ==
    /\ req[r].pc = "cc_author"
    /\ req' = [req EXCEPT ![r].pc = "cc_notify",
                          ![r].code = IF req[r].profile \in DOMAIN users
                                      THEN users[req[r].profile].display_name
                                      ELSE << >>]
    /\ UNCHANGED <<last, comments, commentSeq, lastComment, delivery>>
    /\ UnchangedByComments

\* CreateComment, sixth step: go sendCommentToTelegram(...)
CreateCommentNotify(r) ==
    /\ req[r].pc = "cc_notify"
    /\ delivery' = spawnDelivery(req[r].issue)
    /\ req' = [req EXCEPT ![r].pc = "cc_record"]
    /\ UNCHANGED <<last, comments, commentSeq, lastComment>>
    /\ UnchangedByComments

\* CreateComment, last step: recordCommentTime under the mutex, and the return
CreateCommentRecord(r) ==
    /\ req[r].pc = "cc_record"
    /\ lastComment' = recordCommentTime(req[r].profile)
    /\ req' = [req EXCEPT ![r] = Done(r, "ok")]
    /\ last' = Out("comment", "ok")
    /\ UNCHANGED <<comments, commentSeq, delivery>>
    /\ UnchangedByComments

\* the delivery's requests end when its context or the client times out,
\* and at once when its context is the finished request's
deliveryCtxDone(commentID) ==
    \/ delivery[commentID].ctx = "request"
    \/ now >= delivery[commentID].started_at + Min(deliveryTimeout, telegramClientTimeout)

\* sql/comments_set_telegram_message_id.sql: the message id is stored on the row
queryCommentsSetTelegramMessageID(messageID, commentID) ==
    IF commentID \in DOMAIN comments
    THEN [comments EXCEPT ![commentID].telegram_message_id = messageID]
    ELSE comments

\* sendCommentToTelegram: credentials not set, the notification is skipped
DeliverySkip(commentID) ==
    /\ commentID \in DOMAIN delivery
    /\ delivery[commentID].pc = "running"
    /\ ~telegram
    /\ delivery' = [delivery EXCEPT ![commentID].pc = "skipped"]
    /\ UNCHANGED <<users, usedIds, comments, lastComment, sem, now, ticks, req, issues,
                   loginCount, last, minioClient, commentSeq, deleted, synced, telegram, cache, executed,
                   chapters, novels, visitors, lists>>

\* sendCommentToTelegram: the POST and its answer; "ok" stores the message id,
\* every failure is logged and the goroutine returns
DeliverySend(commentID, outcome) ==
    /\ commentID \in DOMAIN delivery
    /\ delivery[commentID].pc = "running"
    /\ telegram
    /\ ~deliveryCtxDone(commentID)
    /\ delivery' = [delivery EXCEPT ![commentID].pc = outcome]
    /\ comments' = IF outcome = "ok"
                   THEN queryCommentsSetTelegramMessageID(commentID, commentID)
                   ELSE comments
    /\ UNCHANGED <<users, usedIds, lastComment, sem, now, ticks, req, issues,
                   loginCount, last, minioClient, commentSeq, deleted, synced, telegram, cache, executed,
                   chapters, novels, visitors, lists>>

\* sendCommentToTelegram: telegramClient.Do fails because the context is done
DeliveryTimeout(commentID) ==
    /\ commentID \in DOMAIN delivery
    /\ delivery[commentID].pc = "running"
    /\ telegram
    /\ deliveryCtxDone(commentID)
    /\ delivery' = [delivery EXCEPT ![commentID].pc = "context done"]
    /\ UNCHANGED <<users, usedIds, comments, lastComment, sem, now, ticks, req, issues,
                   loginCount, last, minioClient, commentSeq, deleted, synced, telegram, cache, executed,
                   chapters, novels, visitors, lists>>

\* the cooldown sweep started by init: entries older than five minutes go
SweepCooldowns ==
    /\ \E u \in DOMAIN lastComment : now - lastComment[u] > sweepAge
    /\ lastComment' = [u \in {v \in DOMAIN lastComment : ~(now - lastComment[v] > sweepAge)} |->
                          lastComment[u]]
    /\ UNCHANGED <<users, usedIds, comments, sem, now, ticks, req, issues, loginCount, last,
                   minioClient, commentSeq, deleted, synced, delivery, telegram, cache, executed,
                   chapters, novels, visitors, lists>>

\* the status UPDATE without the pending guard
queryCommentsUpdateStatusAnyState(status, commentID) ==
    IF commentID \in DOMAIN comments /\ status \in CommentStatuses
    THEN [found |-> TRUE, comments |-> [comments EXCEPT ![commentID].status = status]]
    ELSE [found |-> FALSE, comments |-> comments]

\* sql/comments_update_status.sql: a pending comment takes the new status and
\* its id is returned; the CHECK constraint admits the three statuses only
queryCommentsUpdateStatus(status, commentID) ==
    IF /\ commentID \in DOMAIN comments
       /\ comments[commentID].status = "pending"
       /\ status \in CommentStatuses
    THEN [found |-> TRUE, comments |-> [comments EXCEPT ![commentID].status = status]]
    ELSE [found |-> FALSE, comments |-> comments]

\* UpdateCommentStatus: run the statement, an absent row is an error
UpdateCommentStatus(commentID, status) ==
    LET q == queryCommentsUpdateStatus(status, commentID)
    IN  [err |-> ~q.found, comments |-> q.comments]

ModerationActions == {"approve", "reject", "other"}
CommentInputs == 1..MaxComments

\* UpdateTelegramMessage: TRUE when it returns an error (credentials not
\* set, or the POST failed)
UpdateTelegramMessage(postOK) == ~telegram \/ ~postOK

\* the handler that undoes the status change when the edit fails
afterEditRollback(before, after, editErr) == IF editErr THEN before ELSE after

\* what the handler keeps of the status change once the edit has been
\* attempted: a failed edit is logged only
afterEdit(before, after, editErr) == after

\* the webhook handler: approve or reject, anything else is ignored; then the
\* edit of the moderation message; [status, comments]
handleModerationCallback(action, commentID, postOK) ==
    IF action \notin {"approve", "reject"}
    THEN [status |-> "ignored", comments |-> comments]
    ELSE LET u == UpdateCommentStatus(commentID,
                                      IF action = "approve" THEN "approved" ELSE "rejected")
             editErr == UpdateTelegramMessage(postOK)
         IN  IF u.err
             THEN [status |-> "error", comments |-> u.comments]
             ELSE [status |-> IF editErr THEN "edit failed" ELSE "ok",
                   comments |-> afterEdit(comments, u.comments, editErr)]

HandleModerationCallback(action, commentID, postOK) ==
    /\ LET h == handleModerationCallback(action, commentID, postOK)
       IN  /\ comments' = h.comments
           /\ last' = Out("moderate", h.status)
    /\ UNCHANGED <<users, usedIds, lastComment, sem, now, ticks, req, issues, loginCount,
                   minioClient, commentSeq, deleted, synced, delivery, telegram, cache, executed,
                   chapters, novels, visitors, lists>>

\* sql/comments_count_approved.sql
queryCommentsCountApproved(chapterID) ==
    Cardinality({c \in DOMAIN comments :
                    comments[c].chapter_id = chapterID /\ comments[c].status = "approved"})

\* the listing statement without its status filter
queryCommentsGetApprovedAnyStatus(chapterID) ==
    {c \in DOMAIN comments :
        comments[c].user_id \in DOMAIN users /\ comments[c].chapter_id = chapterID}

\* sql/comments_get_approved.sql, the rows before ORDER BY / LIMIT / OFFSET
queryCommentsGetApproved(chapterID) ==
    {c \in DOMAIN comments :
        /\ comments[c].user_id \in DOMAIN users
        /\ comments[c].chapter_id = chapterID
        /\ comments[c].status = "approved"}

RECURSIVE newestFirst(_)
\* the orders ORDER BY c.created_at DESC allows (ties in any order)
newestFirst(ids) ==
    IF ids = {} THEN {<< >>}
    ELSE UNION {{<<c>> \o rest : rest \in newestFirst(ids \ {c})} :
                   c \in {x \in ids : \A y \in ids :
                             comments[x].created_at >= comments[y].created_at}}

RECURSIVE keepRows(_, _)
\* the rows of a result whose positions are in keep, in their order
keepRows(rows, keep) ==
    IF rows = << >> THEN << >>
    ELSE LET front == keepRows(SubSeq(rows, 1, Len(rows) - 1), keep)
         IN  IF Len(rows) \in keep THEN Append(front, rows[Len(rows)]) ELSE front

\* the loop over rows.Next(): a row whose Scan fails is logged and skipped
scanRows(rows) == {keepRows(rows, keep) : keep \in SUBSET DOMAIN rows}

\* the page count rounded down
totalPagesRoundedDown(totalCount) == totalCount \div pageSize

\* totalPages := (totalCount + pageSize - 1) / pageSize
totalPages(totalCount) == (totalCount + pageSize - 1) \div pageSize

\* GetApprovedComments, the listing statement and the loop over its rows, for
\* the count the first statement returned: the set of pages it may produce
getApprovedCommentsRows(chapterID, page, totalCount) ==
    LET offset == (page - 1) * pageSize
    IN  {[comments |-> scanned,
          total_count |-> totalCount,
          total_pages |-> totalPages(totalCount)] :
             scanned \in UNION {scanRows(SubSeq(ord, offset + 1,
                                                Min(offset + pageSize, Len(ord)))) :
                                   ord \in newestFirst(queryCommentsGetApproved(chapterID))}}

\* GetApprovedComments run with no statement of another request in between:
\* count, then one page of pageSize rows; the set of pages the call may return
getApprovedComments(chapterID, page) ==
    LET totalCount == queryCommentsCountApproved(chapterID)
    IN  IF totalCount = 0
        THEN {[comments |-> << >>, total_count |-> 0, total_pages |-> 0]}
        ELSE getApprovedCommentsRows(chapterID, page, totalCount)

\* GetApprovedComments, first statement: the count; zero returns the empty page
GetApprovedCommentsCount(r, chapterID, page) ==
    /\ Free(r)
    /\ LET totalCount == queryCommentsCountApproved(chapterID)
       IN  IF totalCount = 0
           THEN /\ req' = [req EXCEPT ![r] = Finished("list", "ok")]
                /\ last' = Out("list", "ok")
           ELSE /\ req' = [req EXCEPT ![r] = [IdleReq EXCEPT !.pc = "list_rows",
                                                             !.op = "list",
                                                             !.chapter = chapterID,
                                                             !.page = page,
                                                             !.count = totalCount]]
                /\ UNCHANGED last
    /\ UNCHANGED <<comments, commentSeq, lastComment, delivery>>
    /\ UnchangedByComments

\* GetApprovedComments, second statement: the listing, and the return
GetApprovedCommentsRows(r) ==
    /\ req[r].pc = "list_rows"
    /\ req' = [req EXCEPT ![r] = Done(r, "ok")]
    /\ last' = Out("list", "ok")
    /\ UNCHANGED <<comments, commentSeq, lastComment, delivery>>
    /\ UnchangedByComments

(* ----------------------------- responses ------------------------------ *)
(* What each operation returns to its caller, as a function of the users
   table it runs against: us is the table, the other tables are the
   state's. *)

\* verifySecretToken against the table us
verifySecretTokenIn(us, profileID, providedToken) ==
    /\ profileID \in DOMAIN us
    /\ us[profileID].secret_token = providedToken

\* the profile SELECT that also reads secret_token
getProfileResponseWithToken(us, profileID) ==
    IF profileID \in DOMAIN us
    THEN [status |-> "ok", id |-> profileID,
          display_name |-> us[profileID].display_name,
          has_custom_avatar |-> us[profileID].has_custom_avatar,
          secret_token |-> us[profileID].secret_token]
    ELSE [status |-> "not found"]

\* GetProfile: SELECT id, display_name, avatar_seed, has_custom_avatar, created_at
getProfileResponse(us, profileID) ==
    IF profileID \in DOMAIN us
    THEN [status |-> "ok", id |-> profileID,
          display_name |-> us[profileID].display_name,
          has_custom_avatar |-> us[profileID].has_custom_avatar]
    ELSE [status |-> "not found"]

\* GenerateSyncCode: SyncCodeResponse{SyncCode, ExpiresAt}
generateSyncCodeResponse(us, profileID, secretToken, syncCode) ==
    IF ~verifySecretTokenIn(us, profileID, secretToken)
    THEN [status |-> "invalid secret token"]
    ELSE IF \E q \in DOMAIN us \ {profileID} : us[q].sync_code = syncCode
    THEN [status |-> "unique violation"]
    ELSE [status |-> "ok", sync_code |-> syncCode, expires_at |-> now + SyncCodeTTL]

\* SyncCookies: the merged map
syncCookiesResponse(us, profileID, secretToken, cookies) ==
    IF ~verifySecretTokenIn(us, profileID, secretToken)
    THEN [status |-> "invalid secret token"]
    ELSE [status |-> "ok",
          cookies |-> mergeCookies(unmarshalCookies(us[profileID].cookies),
                                   validateCookies(cookies))]

\* UpdateDisplayName: GetProfile after the UPDATE
updateDisplayNameResponse(us, profileID, secretToken, newName) ==
    LET v == ValidateDisplayName(newName)
    IN  IF ~verifySecretTokenIn(us, profileID, secretToken)
        THEN [status |-> "invalid secret token"]
        ELSE IF ~v.ok
        THEN [status |-> "invalid name"]
        ELSE getProfileResponse([us EXCEPT ![profileID].display_name = v.name], profileID)

\* UpdateAvatar: GetProfile after the upload and the UPDATE
updateAvatarResponse(us, profileID, secretToken, outcome) ==
    IF ~minioClient THEN [status |-> "s3 not configured"]
    ELSE IF ~verifySecretTokenIn(us, profileID, secretToken)
    THEN [status |-> "invalid secret token"]
    ELSE IF outcome # "ok" THEN [status |-> outcome]
    ELSE getProfileResponse([us EXCEPT ![profileID].has_custom_avatar = TRUE], profileID)

\* CreateComment: the inserted row with the author's public columns
createCommentResponse(us, profileID, secretToken, chapterID, contentLen, captchaOK) ==
    IF contentLen = 0 \/ contentLen > maxContentLen
    THEN [status |-> "invalid content length"]
    ELSE IF ~checkCommentRateLimit(profileID) THEN [status |-> "rate limit exceeded"]
    ELSE IF ~captchaOK THEN [status |-> "captcha verification failed"]
    ELSE IF ~chapterExists(chapterID) THEN [status |-> "chapter not found"]
    ELSE IF ~verifySecretTokenIn(us, profileID, secretToken)
    THEN [status |-> "invalid secret token"]
    ELSE [status |-> "ok", id |-> commentSeq + 1, chapter_id |-> chapterID,
          user_id |-> profileID, comment_status |-> "pending", created_at |-> now,
          user_display_name |-> us[profileID].display_name]

\* GetApprovedComments: each row of the page with u.display_name joined in
getApprovedCommentsResponse(us, chapterID, page) ==
    {[comments |-> [i \in DOMAIN pg.comments |->
                       [id |-> pg.comments[i],
                        user_id |-> comments[pg.comments[i]].user_id,
                        user_display_name |->
                            us[comments[pg.comments[i]].user_id].display_name]],
      total_count |-> pg.total_count,
      total_pages |-> pg.total_pages] : pg \in getApprovedComments(chapterID, page)}

(* ------------------------------ catalogue ----------------------------- *)
SortEnum == {"newest", "oldest", "large", "small", "alphabet", "created"}

\* what can arrive as a sort value: the enum, and values only a cookie can carry
SortInputs == SortEnum \cup {"", "NEWEST", "title; DROP TABLE novels --"}

NovelPages == {1, 2}
NovelCounts == {0, 1, 13}

baseQuery ==
    "SELECT id, title, title_en, author, year_start, year_end, status, description, age_rating, cover_url, created_at FROM novels"

\* the ORDER BY built from the sort value itself
orderByClauseInterpolated(sort) == <<"ORDER BY", sort>>

\* the switch over sort; a statement is the sequence of the pieces it is
\* formatted from
orderByClause(sort) ==
    CASE sort = "newest" -> <<"ORDER BY year_start DESC, title ASC">>
      [] sort = "large" -> <<"ORDER BY chapters_count DESC, title ASC">>
      [] sort = "small" -> <<"ORDER BY chapters_count ASC, title ASC">>
      \* the character class is the Cyrillic lower-case letters, written here
      \* by their code points
      [] sort = "alphabet" ->
             <<"ORDER BY regexp_replace(lower(title), '[^\\u0430-\\u044f\\u0451]', '', 'g') ASC">>
      [] sort = "created" -> <<"ORDER BY created_at DESC">>
      [] OTHER -> <<"ORDER BY year_start ASC, title ASC">>

\* fmt.Sprintf("%s %s LIMIT $1 OFFSET $2", baseQuery, orderByClause)
finalQuery(sort) == <<baseQuery>> \o orderByClause(sort) \o <<"LIMIT $1 OFFSET $2">>

\* the lookup that never looks at the expiration
cacheGetIgnoresExpiration(key) == key \in DOMAIN cache

\* Cache.Get: found and not expired
cacheGet(key) == key \in DOMAIN cache /\ now < cache[key].expiration

\* Cache.Set: the entry of key is replaced, it expires duration from now
cacheSet(key, value, duration) ==
    [k \in DOMAIN cache \cup {key} |->
        IF k = key THEN [value |-> value, expiration |-> now + duration] ELSE cache[k]]

\* GetOrFetch run with no step of another request in between; fetched is
\* what fetch() returns when it is called, [ok, value];
\* [err, value, calls, cache], calls being the number of calls of fetch
getOrFetch(key, duration, fetched) ==
    IF cacheGet(key)
    THEN [err |-> FALSE, value |-> cache[key].value, calls |-> 0, cache |-> cache]
    ELSE IF ~fetched.ok
    THEN [err |-> TRUE, value |-> "", calls |-> 1, cache |-> cache]
    ELSE [err |-> FALSE, value |-> fetched.value, calls |-> 1,
          cache |-> cacheSet(key, fetched.value, duration)]

(* ------------------------- chapters and novels ------------------------ *)
NovelIDs == {"nov_1", "nov_2"}
ChapterRowIDs == {"chp_1", "chp_2", "chp_3"}
ChapterNums == {1, 2}

\* the migration: the column with its default, then the counts of the rows
backfill(ns, cs) ==
    [n \in DOMAIN ns |->
        [chapters_count |-> Cardinality({c \in DOMAIN cs : cs[c].novel_id = n})]]

\* update_novel_chapter_count: the trigger function, for one row
update_novel_chapter_count(tgOp, row, ns) ==
    IF tgOp = "INSERT" /\ row.novel_id \in DOMAIN ns
    THEN [ns EXCEPT ![row.novel_id].chapters_count = @ + 1]
    ELSE IF tgOp = "DELETE" /\ row.novel_id \in DOMAIN ns
    THEN [ns EXCEPT ![row.novel_id].chapters_count = @ - 1]
    ELSE ns

\* CREATE TRIGGER ... AFTER INSERT OR DELETE ON chapters FOR EACH ROW
triggerEvents == {"INSERT", "DELETE"}

afterRow(tgOp, row, ns) ==
    IF tgOp \in triggerEvents THEN update_novel_chapter_count(tgOp, row, ns) ELSE ns

\* PRIMARY KEY, REFERENCES novels(id), UNIQUE(novel_id, chapter_num)
chapterRowAllowed(id, novelID, num) ==
    /\ novelID \in DOMAIN novels
    /\ \A c \in DOMAIN chapters \ {id} :
           ~(chapters[c].novel_id = novelID /\ chapters[c].chapter_num = num)

UnchangedByChapters ==
    UNCHANGED <<users, usedIds, lastComment, sem, now, ticks, req, issues,
                loginCount, last, minioClient, commentSeq, deleted, synced, delivery, telegram,
                cache, executed, visitors, lists>>

\* INSERT INTO chapters
InsertChapter(id, novelID, num) ==
    /\ id \notin DOMAIN chapters
    /\ chapterRowAllowed(id, novelID, num)
    /\ novels[novelID].chapters_count < MaxCount
    /\ LET row == [novel_id |-> novelID, chapter_num |-> num]
       IN  /\ chapters' = [c \in DOMAIN chapters \cup {id} |->
                              IF c = id THEN row ELSE chapters[c]]
           /\ novels' = afterRow("INSERT", row, novels)
    /\ UNCHANGED comments
    /\ UnchangedByChapters

\* DELETE FROM chapters WHERE id = $1, with comments.chapter_id ON DELETE
\* CASCADE
DeleteChapter(id) ==
    /\ id \in DOMAIN chapters
    /\ chapters' = [c \in DOMAIN chapters \ {id} |-> chapters[c]]
    /\ novels' = afterRow("DELETE", chapters[id], novels)
    /\ comments' = [c \in {d \in DOMAIN comments : comments[d].chapter_id # id} |->
                       comments[c]]
    /\ UnchangedByChapters

\* UPDATE chapters SET novel_id = $2 WHERE id = $1
ReassignChapter(id, novelID) ==
    /\ id \in DOMAIN chapters
    /\ chapters[id].novel_id # novelID
    /\ chapterRowAllowed(id, novelID, chapters[id].chapter_num)
    /\ chapters' = [chapters EXCEPT ![id].novel_id = novelID]
    /\ novels' = afterRow("UPDATE", chapters'[id], novels)
    /\ UNCHANGED comments
    /\ UnchangedByChapters

(* ------------------------- cached data calls ------------------------- *)
chaptersCacheTTL == 300
novelCacheTTL == 600
chapterCacheTTL == 1800

\* fmt.Sprintf("novels:page:%d:sort:%s", page, sort) and the other keys, as
\* the sequence of the pieces they are formatted from
novelsKey(page, sort) == <<"novels:page:", page, ":sort:", sort>>
novelKey(id) == <<"novel:", id>>
chapterKey(id) == <<"chapter:", id>>
chaptersKey(novelID) == <<"chapters:", novelID>>

\* the duration each caller passes to GetOrFetch; the caller of the package
\* itself keeps its own in count
durationOf(rq) ==
    CASE rq.call = "novels" -> novelsCacheTTL
      [] rq.call = "novel" -> novelCacheTTL
      [] rq.call = "chapter" -> chapterCacheTTL
      [] rq.call = "chapters" -> chaptersCacheTTL
      [] OTHER -> rq.count

\* the ways of putting the members of S in a row
Arrangements(S) ==
    {f \in [1..Cardinality(S) -> S] : \A i, j \in 1..Cardinality(S) : f[i] = f[j] => i = j}

\* the fetch of GetChapters: the rows of the novel as ChapterSummary values,
\* in whatever order the statement returns them
chaptersGetList(novelID) ==
    {[i \in DOMAIN f |-> [id |-> f[i], chapter_num |-> chapters[f[i]].chapter_num]] :
        f \in Arrangements({c \in DOMAIN chapters : chapters[c].novel_id = novelID})}

\* the page GetNovels builds from the count
novelsPage(page, totalCount) ==
    [page |-> page, total_count |-> totalCount,
     total_pages |-> (totalCount + novelsPageSize - 1) \div novelsPageSize]

\* a request enters GetOrFetch for one of the data calls
startCall(rq, call, key) == [rq EXCEPT !.pc = "cache_get", !.call = call, !.code = key]

\* a handler whose data call has returned: how is "cached" (Cache.Get found
\* the entry), "fetched" (after Cache.Set) or "error" (fetch failed); the
\* request's next position
afterReturn(rq, how, value) ==
    LET finished(st) == [IdleReq EXCEPT !.pc = "done", !.op = rq.op, !.status = st]
        err == how = "error"
        toList == [rq EXCEPT !.list = value, !.call = "", !.code = NULL, !.value = << >>,
                             !.pc = IF Len(lists[value]) > 0 /\ rq.op # "home"
                                    THEN "sort" ELSE "scan"]
    IN  CASE rq.op = "fetch" -> finished(how)
          [] rq.op = "novels" -> finished(IF how = "fetched" THEN "ok" ELSE how)
          [] rq.op = "home" /\ rq.call = "novels" ->
                 IF err THEN finished("error")
                 ELSE IF rq.novel = "" THEN finished("ok")
                 ELSE startCall(rq, "novel", novelKey(rq.novel))
          [] rq.op = "home" /\ rq.call = "novel" ->
                 IF err \/ rq.prog = "" THEN finished("ok")
                 ELSE startCall(rq, "chapters", chaptersKey(rq.novel))
          [] rq.op = "home" /\ rq.call = "chapters" ->
                 IF err THEN finished("ok") ELSE toList
          [] rq.op \in {"novel", "chapter"} /\ rq.call = "novel" ->
                 IF err THEN finished("novel not found")
                 ELSE IF rq.op = "chapter"
                 THEN startCall(rq, "chapter", chapterKey(rq.chapter))
                 ELSE startCall(rq, "chapters", chaptersKey(rq.novel))
          [] rq.op = "chapter" /\ rq.call = "chapter" ->
                 IF err THEN finished("chapter not found")
                 ELSE startCall(rq, "chapters", chaptersKey(rq.novel))
          [] OTHER -> IF err THEN [rq EXCEPT !.pc = "scan", !.list = 0, !.call = ""]
                      ELSE toList

\* last after a step that moved a request to next
lastAfter(next) == IF next.pc = "done" THEN Out(next.op, next.status) ELSE last

UnchangedByData ==
    UNCHANGED <<users, usedIds, comments, lastComment, sem, now, ticks, issues,
                loginCount, minioClient, commentSeq, deleted, synced, delivery, telegram,
                chapters, novels, visitors>>

\* GetOrFetch, c.Get(key): a live entry is returned, anything else goes on to
\* fetch
CacheGet(r) ==
    /\ req[r].pc = "cache_get"
    /\ LET next == IF cacheGet(req[r].code)
                   THEN afterReturn(req[r], "cached", cache[req[r].code].value)
                   ELSE [req[r] EXCEPT !.pc = "fetch"]
       IN  /\ req' = [req EXCEPT ![r] = next]
           /\ last' = lastAfter(next)
    /\ UNCHANGED <<cache, executed, lists>>
    /\ UnchangedByData

\* GetOrFetch, c.Set(key, value, duration), and the return of value
CacheSet(r) ==
    /\ req[r].pc = "cache_set"
    /\ cache' = cacheSet(req[r].code, req[r].value, durationOf(req[r]))
    /\ LET next == afterReturn(req[r], "fetched", req[r].value)
       IN  /\ req' = [req EXCEPT ![r] = next]
           /\ last' = lastAfter(next)
    /\ UNCHANGED <<executed, lists>>
    /\ UnchangedByData

\* Cache.Delete(key), called by a caller of the package: the entry of key is
\* removed, when there is one
CacheDelete(key) ==
    /\ cache' = [k \in DOMAIN cache \ {key} |-> cache[k]]
    /\ UNCHANGED <<req, last, executed, lists>>
    /\ UnchangedByData

\* the fetch of a caller of the package: fetched is what it returns
Fetch(r, fetched) ==
    /\ req[r].pc = "fetch"
    /\ req[r].call = "any"
    /\ LET next == IF fetched.ok
                   THEN [req[r] EXCEPT !.pc = "cache_set", !.value = fetched.value]
                   ELSE afterReturn(req[r], "error", "")
       IN  /\ req' = [req EXCEPT ![r] = next]
           /\ last' = lastAfter(next)
    /\ UNCHANGED <<cache, executed, lists>>
    /\ UnchangedByData

\* a caller of the package enters GetOrFetch
GetOrFetch(r, key, duration) ==
    /\ Free(r)
    /\ req' = [req EXCEPT ![r] =
                  startCall([IdleReq EXCEPT !.op = "fetch", !.count = duration], "any", key)]
    /\ UNCHANGED <<cache, executed, lists, last>>
    /\ UnchangedByData

\* the fetch of GetNovel: SELECT ... FROM novels WHERE id = $1
FetchNovel(r) ==
    /\ req[r].pc = "fetch"
    /\ req[r].call = "novel"
    /\ LET next == IF req[r].novel \in DOMAIN novels
                   THEN [req[r] EXCEPT !.pc = "cache_set", !.value = req[r].novel]
                   ELSE afterReturn(req[r], "error", "")
       IN  /\ req' = [req EXCEPT ![r] = next]
           /\ last' = lastAfter(next)
    /\ UNCHANGED <<cache, executed, lists>>
    /\ UnchangedByData

\* the fetch of GetChapter: SELECT ... FROM chapters WHERE id = $1
FetchChapter(r) ==
    /\ req[r].pc = "fetch"
    /\ req[r].call = "chapter"
    /\ LET next == IF req[r].chapter \in DOMAIN chapters
                   THEN [req[r] EXCEPT !.pc = "cache_set",
                                       !.value = chapters[req[r].chapter]]
                   ELSE afterReturn(req[r], "error", "")
       IN  /\ req' = [req EXCEPT ![r] = next]
           /\ last' = lastAfter(next)
    /\ UNCHANGED <<cache, executed, lists>>
    /\ UnchangedByData

\* the fetch of GetChapters: the listing statement, and a new ChaptersList
\* that holds its rows
FetchChapters(r, rows) ==
    /\ req[r].pc = "fetch"
    /\ req[r].call = "chapters"
    /\ rows \in chaptersGetList(req[r].novel)
    /\ Cardinality(DOMAIN lists) < MaxLists
    /\ LET address == Cardinality(DOMAIN lists) + 1
       IN  /\ lists' = [a \in DOMAIN lists \cup {address} |->
                           IF a = address THEN rows ELSE lists[a]]
           /\ req' = [req EXCEPT ![r].pc = "cache_set", ![r].value = address]
    /\ UNCHANGED <<cache, executed, last>>
    /\ UnchangedByData

\* the fetch of GetNovels, first statement: the count; a page past the end
\* is answered without the listing
FetchNovelsCount(r, totalCount) ==
    /\ req[r].pc = "fetch"
    /\ req[r].call = "novels"
    /\ LET offset == (req[r].page - 1) * novelsPageSize
           pastEnd == totalCount > 0 /\ offset >= totalCount
       IN  req' = [req EXCEPT ![r].pc = IF pastEnd THEN "cache_set" ELSE "fetch_rows",
                              ![r].value = novelsPage(req[r].page, totalCount)]
    /\ UNCHANGED <<cache, executed, lists, last>>
    /\ UnchangedByData

\* the fetch of GetNovels, second statement: the listing
FetchNovelsRows(r) ==
    /\ req[r].pc = "fetch_rows"
    /\ executed' = executed \cup {[sort |-> req[r].order, sql |-> finalQuery(req[r].order)]}
    /\ req' = [req EXCEPT ![r].pc = "cache_set"]
    /\ UNCHANGED <<cache, lists, last>>
    /\ UnchangedByData

\* GetNovels: the key, then GetOrFetch
GetNovels(rq, page, sort) ==
    startCall([rq EXCEPT !.page = page, !.order = sort], "novels", novelsKey(page, sort))

\* HandleGetNovels: the sort query parameter, one of the enum after validation
HandleGetNovels(r, page, sort) ==
    /\ Free(r)
    /\ sort \in SortEnum
    /\ req' = [req EXCEPT ![r] = GetNovels([IdleReq EXCEPT !.op = "novels"], page, sort)]
    /\ UNCHANGED <<cache, executed, lists, last>>
    /\ UnchangedByData

\* Handler.Home: the value of the kappalib_catalog_sort cookie when the
\* request has one, "oldest" otherwise (cookie is the set of its values);
\* lastRead and progress are the values of kappalib_last_read and of
\* kappalib_prog_<novel>, "" when the request has none
Home(r, page, cookie, lastRead, progress) ==
    /\ Free(r)
    /\ LET sortOrder == IF cookie = {} THEN "oldest" ELSE CHOOSE v \in cookie : TRUE
       IN  req' = [req EXCEPT ![r] =
                      GetNovels([IdleReq EXCEPT !.op = "home", !.novel = lastRead,
                                                !.prog = progress], page, sortOrder)]
    /\ UNCHANGED <<cache, executed, lists, last>>
    /\ UnchangedByData

(* ------------------------- chapter navigation ------------------------- *)
\* sort.Slice by ChapterNum, ascending unless order is "desc": the orders the
\* call may leave the list in (sort.Slice is not stable, elements with equal
\* numbers end in either order)
sortSlice(list, order) ==
    {s \in {[i \in DOMAIN list |-> list[f[i]]] : f \in Arrangements(DOMAIN list)} :
        \A i, j \in DOMAIN s :
            i < j => IF order = "desc" THEN s[j].chapter_num <= s[i].chapter_num
                     ELSE s[j].chapter_num >= s[i].chapter_num}

\* what an element of the slice can hold while or after two sort.Slice calls
\* swap its elements at the same time: the copy of an element is not atomic,
\* so the id of one element can end up with the number of another
racedElements(list) ==
    {[id |-> list[i].id, chapter_num |-> list[j].chapter_num] : i, j \in DOMAIN list}

\* the slice after sort.Slice calls that overlapped: of two swaps that
\* interleave (tmp := a[i]; a[i] = a[j]; a[j] = tmp) one element can be kept
\* twice and another lost
racedLists(list) == [DOMAIN list -> racedElements(list)]

\* Handler.Chapter, the loop over the list: the ids before and after the
\* first element whose id is chapterID
neighbours(list, chapterID) ==
    LET hits == {i \in DOMAIN list : list[i].id = chapterID}
    IN  IF hits = {} THEN [prev |-> "", next |-> ""]
        ELSE LET i == CHOOSE k \in hits : \A m \in hits : k <= m
             IN  [prev |-> IF i > 1 THEN list[i - 1].id ELSE "",
                  next |-> IF i < Len(list) THEN list[i + 1].id ELSE ""]

\* the loop of Handler.Chapter while a sort.Slice call writes the slice: a[i],
\* a[i-1] and a[i+1] are read at different moments and each read can see any
\* of the ids (ids); the chapter is found at some index, or at none
racedNeighbours(list, ids, chapterID) ==
    {[prev |-> "", next |-> ""]}
    \cup (IF chapterID \in ids
          THEN {[prev |-> IF i > 1 THEN p ELSE "", next |-> IF i < Len(list) THEN q ELSE ""] :
                   i \in DOMAIN list, p \in ids, q \in ids}
          ELSE {})

\* Handler.Novel: GetNovel first; order is the kappalib_chapter_sort cookie
Novel(r, id, order) ==
    /\ Free(r)
    /\ req' = [req EXCEPT ![r] =
                  startCall([IdleReq EXCEPT !.op = "novel", !.novel = id,
                                            !.order = IF order = "desc" THEN "desc" ELSE "asc"],
                            "novel", novelKey(id))]
    /\ UNCHANGED <<cache, executed, lists, last>>
    /\ UnchangedByData

\* Handler.Chapter: GetNovel first; the list is sorted ascending
Chapter(r, novelID, chapterID) ==
    /\ Free(r)
    /\ req' = [req EXCEPT ![r] =
                  startCall([IdleReq EXCEPT !.op = "chapter", !.novel = novelID,
                                            !.chapter = chapterID, !.order = "asc"],
                            "novel", novelKey(novelID))]
    /\ UNCHANGED <<cache, executed, lists, last>>
    /\ UnchangedByData

\* sort.Slice starts on the list the request holds; two sorts of one list
\* that overlap race with each other
SortBegin(r) ==
    /\ req[r].pc = "sort"
    /\ LET others == {q \in DOMAIN req \ {r} :
                         req[q].pc = "sorting" /\ req[q].list = req[r].list}
       IN  req' = [q \in DOMAIN req |->
                      IF q = r THEN [req[r] EXCEPT !.pc = "sorting",
                                                   !.status = IF others = {} THEN "none"
                                                              ELSE "raced"]
                      ELSE IF q \in others THEN [req[q] EXCEPT !.status = "raced"]
                      ELSE req[q]]
    /\ UNCHANGED <<cache, executed, lists, last>>
    /\ UnchangedByData

\* sort.Slice returns: the list is sorted in the order asked for, or, after a
\* race with another sort, holds whatever the interleaved swaps left; a
\* request that was reading the list meanwhile has read it during the sort
SortEnd(r) ==
    /\ req[r].pc = "sorting"
    /\ LET list == lists[req[r].list]
       IN  \E sorted \in IF req[r].status = "raced"
                         THEN racedLists(list)
                         ELSE sortSlice(list, req[r].order) :
               lists' = [lists EXCEPT ![req[r].list] = sorted]
    /\ req' = [q \in DOMAIN req |->
                  IF q = r THEN [req[r] EXCEPT !.pc = "scan", !.status = "none"]
                  ELSE IF req[q].pc = "scan" /\ req[q].list = req[r].list
                  THEN [req[q] EXCEPT !.status = "raced"]
                  ELSE req[q]]
    /\ UNCHANGED <<cache, executed, last>>
    /\ UnchangedByData

\* the rest of the handler: the Chapter page looks its neighbours up in the
\* list, the Novel page renders the list, the home page looks for the chapter
\* of the progress cookie; a request whose GetChapters failed has no list.
\* The loop runs unlocked: when a sort of the list is running, or has run
\* since the request reached the loop, its reads raced with the swaps
PageFinish(r) ==
    /\ req[r].pc = "scan"
    /\ LET list == IF req[r].list \in DOMAIN lists THEN lists[req[r].list] ELSE << >>
           racing == \/ req[r].status = "raced"
                     \/ \E q \in DOMAIN req :
                            req[q].pc = "sorting" /\ req[q].list = req[r].list
           ids == {list[i].id : i \in DOMAIN list}
                  \cup {c \in DOMAIN chapters : chapters[c].novel_id = req[r].novel}
       IN  \E found \in IF racing THEN racedNeighbours(list, ids, req[r].chapter)
                        ELSE {neighbours(list, req[r].chapter)} :
               last' = [op |-> req[r].op, status |-> "ok", chapter |-> req[r].chapter,
                        prev |-> found.prev, next |-> found.next]
    /\ req' = [req EXCEPT ![r] = Done(r, "ok")]
    /\ UNCHANGED <<cache, executed, lists>>
    /\ UnchangedByData

(* ----------------------------- pagination ----------------------------- *)
\* the window of two pages on each side of the current one, wherever it falls
windowCentred(current, total) == [start |-> current - 2, end |-> current + 2]

\* CalculatePagination, start and end of the run of pages between the first
\* and the last one
window(current, total) ==
    LET s0 == current - 2
        e0 == current + 2
        s1 == IF s0 <= 2 THEN 2 ELSE s0
        e1 == IF s0 <= 2 THEN 5 ELSE e0
    IN  IF e1 >= total - 1
        THEN [start |-> total - 4, end |-> total - 1]
        ELSE [start |-> s1, end |-> e1]

\* the pages lo..hi in order
pageRun(lo, hi) == [i \in 1..(IF hi >= lo THEN hi - lo + 1 ELSE 0) |-> lo + i - 1]

\* CalculatePagination: nil, every page, or the first page, the window and
\* the last page with -1 where pages are left out
CalculatePagination(current, total) ==
    IF total <= 1 THEN << >>
    ELSE IF total <= 7 THEN pageRun(1, total)
    ELSE LET w == window(current, total)
         IN  <<1>> \o (IF w.start > 2 THEN <<-1>> ELSE << >>)
                 \o pageRun(w.start, w.end)
                 \o (IF w.end < total - 1 THEN <<-1>> ELSE << >>)
                 \o <<total>>

\* a page that renders its pagination bar
RenderPagination(current, total) ==
    /\ last' = [op |-> "pagination", status |-> "ok", current |-> current,
                total |-> total, pages |-> CalculatePagination(current, total)]
    /\ UNCHANGED <<users, usedIds, comments, lastComment, sem, now, ticks, req, issues,
                   loginCount, minioClient, commentSeq, deleted, synced, delivery, telegram,
                   cache, executed, chapters, novels, visitors, lists>>

(* ---------------------------- rate limiter ---------------------------- *)
maxVisitors == 9999
idleEviction == 60
cleanupAge == 300
apiLimit == 3
apiBurst == 9
webLimit == 10
webBurst == 20

\* RateLimiter.visitors: the entries of the addresses that are followed one by
\* one (known: ip -> limiter, lastSeen and born, the time the entry and its
\* limiter were made), and a crowd of count other addresses that were all
\* last seen at the same moment.  detached holds the limiters of deleted
\* entries that a request in flight still points to, by <<ip, born>>.
NoVisitors ==
    [kind |-> "api", known |-> EmptyMap, crowd |-> [count |-> 0, lastSeen |-> 0],
     detached |-> EmptyMap]

tableLen(v) == Cardinality(DOMAIN v.known) + v.crowd.count

\* rate.NewLimiter(limit, burst): a token bucket that starts full
newLimiter(limit, burst) == [limit |-> limit, burst |-> burst, tokens |-> burst, last |-> now]

\* the tokens of a bucket at this moment: limit tokens a second up to burst
tokensNow(lim) == Min(lim.burst, lim.tokens + (now - lim.last) * lim.limit)

\* Limiter.Allow: one token is taken when there is one
allow(lim) == tokensNow(lim) >= 1

afterAllow(lim) ==
    IF allow(lim) THEN [lim EXCEPT !.tokens = tokensNow(lim) - 1, !.last = now] ELSE lim

\* the limiter a stored visitor gets: 3 a second, burst 9 (API), 10 a second,
\* burst 20 (web)
visitorLimiter(kind) ==
    IF kind = "api" THEN newLimiter(apiLimit, apiBurst) ELSE newLimiter(webLimit, webBurst)

\* the loop that deletes the entries last seen more than age ago
deleteIdle(v, age) ==
    [v EXCEPT !.known = [ip \in {i \in DOMAIN v.known : ~(now - v.known[i].lastSeen > age)}
                            |-> v.known[ip]],
              !.crowd = IF now - v.crowd.lastSeen > age
                        THEN [v.crowd EXCEPT !.count = 0] ELSE v.crowd]

\* &visitor{limiter, time.Now()}
newVisitor(kind) == [limiter |-> visitorLimiter(kind), lastSeen |-> now, born |-> now]

\* getVisitor that stores the new visitor whatever the size of the table
getVisitorNoCap(v, ip) ==
    IF ip \in DOMAIN v.known
    THEN [limiter |-> v.known[ip].limiter, stored |-> TRUE,
          visitors |-> [v EXCEPT !.known[ip].lastSeen = now]]
    ELSE [limiter |-> visitorLimiter(v.kind), stored |-> TRUE,
          visitors |-> [v EXCEPT !.known =
                           [i \in DOMAIN v.known \cup {ip} |->
                               IF i = ip THEN newVisitor(v.kind) ELSE v.known[i]]]]

\* RateLimiter.getVisitor, under the mutex: [limiter, stored, visitors], stored
\* telling whether the limiter returned is the one the table holds for ip
getVisitor(v, ip) ==
    IF ip \in DOMAIN v.known
    THEN [limiter |-> v.known[ip].limiter, stored |-> TRUE,
          visitors |-> [v EXCEPT !.known[ip].lastSeen = now]]
    ELSE LET w == IF tableLen(v) >= maxVisitors THEN deleteIdle(v, idleEviction) ELSE v
         IN  IF tableLen(w) >= maxVisitors
             THEN [limiter |-> newLimiter(1, 1), stored |-> FALSE, visitors |-> w]
             ELSE [limiter |-> visitorLimiter(v.kind), stored |-> TRUE,
                   visitors |-> [w EXCEPT !.known =
                                    [i \in DOMAIN w.known \cup {ip} |->
                                        IF i = ip THEN newVisitor(v.kind) ELSE w.known[i]]]]

\* RateLimitMiddleware for a request of ip, run with no step of another
\* request in between; authorized is the outcome of the X-Service-Token
\* comparison, which only the API middleware makes
rateLimitMiddleware(v, ip, authorized) ==
    IF v.kind = "api" /\ authorized
    THEN [status |-> 200, stored |-> FALSE, visitors |-> v]
    ELSE LET g == getVisitor(v, ip)
         IN  [status |-> IF allow(g.limiter) THEN 200 ELSE 429,
              stored |-> g.stored,
              visitors |-> IF g.stored
                           THEN [g.visitors EXCEPT !.known[ip].limiter = afterAllow(g.limiter)]
                           ELSE g.visitors]

UnchangedByLimiter ==
    UNCHANGED <<users, usedIds, comments, lastComment, sem, now, ticks, issues,
                loginCount, minioClient, commentSeq, deleted, synced, delivery, telegram,
                cache, executed, chapters, novels, lists>>

\* the limiters requests in flight point to, by <<ip, born>>
heldLimiters(rq) ==
    {<<rq[q].code, rq[q].at>> : q \in {x \in DOMAIN rq : rq[x].pc = "allow" /\ rq[x].value = "stored"}}

inTable(v, a) == a[1] \in DOMAIN v.known /\ v.known[a[1]].born = a[2]

\* the table after a step, with the limiters that left it and are still
\* pointed to kept aside, and the ones nobody points to any more dropped
keepDetached(before, after, rq) ==
    [after EXCEPT !.detached =
        [a \in {h \in heldLimiters(rq) : ~inTable(after, h)} |->
            IF a \in DOMAIN after.detached THEN after.detached[a]
            ELSE before.known[a[1]].limiter]]

\* RateLimitMiddleware, first step: the token comparison, then getVisitor
\* under the mutex of the rate limiter
RateLimitGetVisitor(r, ip, authorized) ==
    /\ Free(r)
    /\ IF visitors.kind = "api" /\ authorized
       THEN /\ req' = [req EXCEPT ![r] = Finished("request", "200")]
            /\ last' = [op |-> "request", status |-> 200, ip |-> ip, at |-> now]
            /\ UNCHANGED visitors
       ELSE LET g == getVisitor(visitors, ip)
                next == [IdleReq EXCEPT !.pc = "allow", !.op = "request", !.code = ip,
                                        !.value = IF g.stored THEN "stored" ELSE "own",
                                        !.at = IF g.stored THEN g.visitors.known[ip].born
                                               ELSE now]
            IN  /\ req' = [req EXCEPT ![r] = next]
                /\ visitors' = keepDetached(visitors, g.visitors, req')
                /\ UNCHANGED last
    /\ UnchangedByLimiter

\* the limiter a request at its second step points to
limiterOf(rq) ==
    IF rq.value = "own" THEN [newLimiter(1, 1) EXCEPT !.last = rq.at]
    ELSE IF inTable(visitors, <<rq.code, rq.at>>) THEN visitors.known[rq.code].limiter
    ELSE visitors.detached[<<rq.code, rq.at>>]

\* RateLimitMiddleware, second step: Allow under the mutex of the limiter,
\* then the answer
RateLimitAllow(r) ==
    /\ req[r].pc = "allow"
    /\ LET lim == limiterOf(req[r])
           a == <<req[r].code, req[r].at>>
           st == IF allow(lim) THEN 200 ELSE 429
           after == IF req[r].value = "own" THEN visitors
                    ELSE IF inTable(visitors, a)
                    THEN [visitors EXCEPT !.known[req[r].code].limiter = afterAllow(lim)]
                    ELSE [visitors EXCEPT !.detached[a] = afterAllow(lim)]
       IN  /\ req' = [req EXCEPT ![r] = Done(r, IF st = 200 THEN "200" ELSE "429")]
           /\ visitors' = keepDetached(visitors, after, req')
           /\ last' = [op |-> "request", status |-> st, ip |-> req[r].code, at |-> now]
    /\ UnchangedByLimiter

\* every address of the crowd sends a request: getVisitor finds each of them
CrowdRequests ==
    /\ visitors.crowd.count > 0
    /\ visitors.crowd.lastSeen < now
    /\ visitors' = [visitors EXCEPT !.crowd.lastSeen = now]
    /\ UNCHANGED <<last, req>>
    /\ UnchangedByLimiter

\* cleanupVisitors / cleanupLoop: one round of the two-minute ticker
CleanupVisitors ==
    /\ deleteIdle(visitors, cleanupAge) # visitors
    /\ visitors' = keepDetached(visitors, deleteIdle(visitors, cleanupAge), req)
    /\ UNCHANGED <<last, req>>
    /\ UnchangedByLimiter

(* -------------------------------- time -------------------------------- *)
Tick(d) ==
    /\ ticks < MaxTicks
    /\ now' = now + d
    /\ ticks' = ticks + 1
    /\ UNCHANGED <<users, usedIds, comments, lastComment, sem, req, issues, loginCount,
                   last, minioClient, commentSeq, deleted, synced, delivery, telegram, cache, executed,
                   chapters, novels, visitors, lists>>

(* --------------------------- specifications --------------------------- *)
\* a novel of two chapters and a novel of none, as the migration left them
SeedChapters ==
    [c \in ChapterIDs |-> [novel_id |-> "nov_1", chapter_num |-> IF c = "chp_1" THEN 1 ELSE 2]]
SeedNovels == backfill([n \in NovelIDs |-> [chapters_count |-> 0]], SeedChapters)

InitTables ==
    /\ comments = EmptyMap
    /\ lastComment = EmptyMap
    /\ now = 0
    /\ ticks = 0
    /\ issues = << >>
    /\ loginCount = [i \in 1..MaxIssues |-> 0]
    /\ last = NoLast
    /\ commentSeq = 0
    /\ deleted = {}
    /\ synced = {}
    /\ delivery = EmptyMap
    /\ cache = EmptyMap
    /\ executed = {}
    /\ chapters = SeedChapters
    /\ novels = SeedNovels
    /\ visitors = NoVisitors
    /\ lists = EmptyMap

InitRest ==
    /\ sem = 0
    /\ InitTables

InitStore ==
    /\ users = EmptyMap
    /\ usedIds = {}
    /\ InitRest

\* two profiles already created
InitPopulated ==
    /\ users = [p \in ProfileIDs |-> NewRow(TokenSeq[p], GeneratedName)]
    /\ usedIds = ProfileIDs
    /\ InitRest

(* The profile store: the operations that change a profile, two requests at
   a time, all of them for profile 1 (which does not exist before it is
   created and after it is deleted). *)
Init ==
    /\ InitStore
    /\ req = [r \in {1, 2} |-> IdleReq]
    /\ minioClient \in BOOLEAN
    /\ telegram = TRUE

Next ==
    \/ \E ok \in BOOLEAN : CreateProfile(ok)
    \/ \E r \in ReqIds, tok \in {"tokA", "tokB"} : GenerateSyncCodeVerify(r, 1, tok)
    \/ \E r \in ReqIds : GenerateSyncCodeUpdate(r, CodeA)
    \/ \E r \in ReqIds, tok \in {"tokA", "tokB"}, n \in {NameTagged, Name16} :
           UpdateDisplayNameVerify(r, 1, tok, n)
    \/ \E r \in ReqIds : UpdateDisplayNameUpdate(r)
    \/ \E r \in ReqIds : UpdateDisplayNameRead(r)
    \/ \E r \in ReqIds, tok \in {"tokA", "tokB"},
          cs \in {One(NameTheme, Cv(ValueDark, 1)), One(NameAlien, Cv(ValueDark, 2))} :
           SyncCookiesVerify(r, 1, tok, cs)
    \/ \E r \in ReqIds : SyncCookiesRead(r)
    \/ \E r \in ReqIds : SyncCookiesWrite(r)
    \/ \E r \in ReqIds, tok \in {"tokA", "tokB"} : DeleteProfileVerify(r, 1, tok)
    \/ \E r \in ReqIds : DeleteProfileDelete(r)
    \/ \E r \in ReqIds, tok \in {"tokA", "tokB"} : UpdateAvatarStart(r, 1, tok)
    \/ \E r \in ReqIds : UpdateAvatarAcquire(r)
    \/ \E r \in ReqIds : UpdateAvatarCancel(r)
    \/ \E r \in ReqIds, o \in {"ok", "s3 upload failed"} : UpdateAvatarStore(r, o)
    \/ \E r \in ReqIds : UpdateAvatarRead(r)
    \/ \E r \in ReqIds : UpdateAvatarReturn(r)

Spec == Init /\ [][Next]_vars

(* Sync codes: issue, overlapping logins, expiry. *)
InitSync ==
    /\ InitPopulated
    /\ req = [r \in {1, 2} |-> IdleReq]
    /\ minioClient = TRUE
    /\ telegram = TRUE

\* what the clients of this specification type
TypedCodes == {CodeA, CodeB, <<"\r">> \o CodeA \o <<"U+00A0">>}

NextSync ==
    \/ \E r \in ReqIds, p \in ProfileIDs : GenerateSyncCodeVerify(r, p, TokenSeq[p])
    \/ \E r \in ReqIds, c \in SyncCodes : GenerateSyncCodeUpdate(r, c)
    \/ \E r \in ReqIds, input \in TypedCodes : LoginSelect(r, input)
    \/ \E r \in ReqIds : LoginClear(r)
    \/ \E d \in {1, 899} : Tick(d)

SpecSync == InitSync /\ [][NextSync]_vars

(* Login on a second device: profiles are created, sync cookies, issue
   codes and log in with them, requests overlapping.  A client syncs the one
   cookie it holds, or the empty set of a browser that holds none. *)
LoginCookies == {One(NameTheme, Cv(ValueDark, 1)), [x \in {} |-> Cv(ValueDark, 1)]}

InitLogin ==
    /\ InitStore
    /\ req = [r \in {1, 2} |-> IdleReq]
    /\ minioClient = TRUE
    /\ telegram = TRUE

NextLogin ==
    \/ CreateProfile(TRUE)
    \/ \E r \in ReqIds, p \in ProfileIDs : GenerateSyncCodeVerify(r, p, TokenSeq[p])
    \/ \E r \in ReqIds, c \in SyncCodes : GenerateSyncCodeUpdate(r, c)
    \/ \E r \in ReqIds, p \in ProfileIDs, cs \in LoginCookies :
           SyncCookiesVerify(r, p, TokenSeq[p], cs)
    \/ \E r \in ReqIds : SyncCookiesRead(r)
    \/ \E r \in ReqIds : SyncCookiesWrite(r)
    \/ \E r \in ReqIds, input \in {CodeA, <<" ">> \o CodeB \o <<" ">>} : LoginSelect(r, input)
    \/ \E r \in ReqIds : LoginClear(r)

SpecLogin == InitLogin /\ [][NextLogin]_vars

(* The catalogue listing: the API and the home page ask for pages in any
   sort order, two requests at a time; the cache holds at most MaxCached
   pages of the catalogue in the model. *)
InitCatalogue ==
    /\ InitStore
    /\ req = [r \in {1, 2} |-> IdleReq]
    /\ minioClient = TRUE
    /\ telegram = TRUE

\* the pages of the catalogue that are cached or being fetched
pagesInUse ==
    {k \in DOMAIN cache : Len(k) = 4}
        \cup {req[q].code : q \in {x \in DOMAIN req : req[x].call = "novels"}}

\* the kappalib_last_read and kappalib_prog_<novel> cookies of a Home request
ReadingCookies ==
    {[novel |-> "", prog |-> ""], [novel |-> "nov_1", prog |-> ""],
     [novel |-> "nov_1", prog |-> "chp_1"]}

NextCatalogue ==
    \/ \E r \in ReqIds :
           /\ Cardinality(pagesInUse \cup {novelsKey(1, "newest")}) <= MaxCached
           /\ HandleGetNovels(r, 1, "newest")
    \/ \E r \in ReqIds, v \in {"NEWEST", "title; DROP TABLE novels --"}, c \in ReadingCookies :
           /\ Cardinality(pagesInUse \cup {novelsKey(1, v)}) <= MaxCached
           /\ Home(r, 1, {v}, c.novel, c.prog)
    \/ \E r \in ReqIds : CacheGet(r)
    \/ \E r \in ReqIds, n \in {0, 13} : FetchNovelsCount(r, n)
    \/ \E r \in ReqIds : FetchNovelsRows(r)
    \/ \E r \in ReqIds : FetchNovel(r)
    \/ \E r \in ReqIds, rows \in chaptersGetList("nov_1") : FetchChapters(r, rows)
    \/ \E r \in ReqIds : CacheSet(r)
    \/ \E r \in ReqIds : PageFinish(r)

SpecCatalogue == InitCatalogue /\ [][NextCatalogue]_vars

(* Display names: profiles are created and renamed with every kind of
   input. *)
InitNames ==
    /\ InitStore
    /\ req = [r \in {1, 2} |-> IdleReq]
    /\ minioClient = TRUE
    /\ telegram = TRUE

NextNames ==
    \/ CreateProfile(TRUE)
    \/ \E r \in ReqIds, p \in ProfileIDs, own \in BOOLEAN, n \in NameInputs :
           UpdateDisplayNameVerify(r, p, IF own THEN TokenSeq[p] ELSE NoToken, n)
    \/ \E r \in ReqIds : UpdateDisplayNameUpdate(r)
    \/ \E r \in ReqIds : UpdateDisplayNameRead(r)

SpecNames == InitNames /\ [][NextNames]_vars

(* Cookie sync: profiles send bags with valid and invalid entries, two
   requests at a time. *)
NextCookies ==
    \/ \E r \in ReqIds, p \in ProfileIDs, tok \in ProvidedTokens, cs \in CookieInputs :
           SyncCookiesVerify(r, p, tok, cs)
    \/ \E r \in ReqIds : SyncCookiesRead(r)
    \/ \E r \in ReqIds : SyncCookiesWrite(r)

SpecCookies == InitSync /\ [][NextCookies]_vars

(* The comment listing over long threads: a chapter starts with a number of
   approved comments and two pending ones; moderators decide, authors delete
   their profiles, readers ask for pages. *)
ListingSizes == {0, 1, 11, 12, 13, 24, 25}

InitListing ==
    /\ users = [p \in ProfileIDs |-> NewRow(TokenSeq[p], GeneratedName)]
    /\ usedIds = ProfileIDs
    /\ \E n \in ListingSizes :
           /\ comments = [c \in 1..(n + 2) |->
                             [chapter_id |-> "chp_1", user_id |-> (c % 2) + 1,
                              status |-> IF c <= n THEN "approved" ELSE "pending",
                              created_at |-> c, telegram_message_id |-> NoMessage]]
           /\ commentSeq = n + 2
           /\ now = n + 2
    /\ lastComment = EmptyMap
    /\ sem = 0
    /\ ticks = 0
    /\ issues = << >>
    /\ loginCount = [i \in 1..MaxIssues |-> 0]
    /\ last = NoLast
    /\ deleted = {}
    /\ synced = {}
    /\ delivery = EmptyMap
    /\ cache = EmptyMap
    /\ executed = {}
    /\ chapters = SeedChapters
    /\ novels = SeedNovels
    /\ visitors = NoVisitors
    /\ lists = EmptyMap
    /\ req = [r \in {1} |-> IdleReq]
    /\ minioClient = TRUE
    /\ telegram = TRUE

NextListing ==
    \/ \E a \in ModerationActions, c \in 1..commentSeq, e \in BOOLEAN :
           HandleModerationCallback(a, c, e)
    \/ \E r \in ReqIds, p \in ProfileIDs : DeleteProfileVerify(r, p, TokenSeq[p])
    \/ \E r \in ReqIds : DeleteProfileDelete(r)
    \/ \E r \in ReqIds, ch \in ChapterIDs, pg \in 1..MaxPage : GetApprovedCommentsCount(r, ch, pg)
    \/ \E r \in ReqIds : GetApprovedCommentsRows(r)

SpecListing == InitListing /\ [][NextListing]_vars

(* Failing submissions: every kind of invalid input, and authors who delete
   their profile between the checks and the INSERT. *)
NextCommentFailures ==
    \/ \E r \in ReqIds, tok \in {TokenSeq[1], NoToken}, ch \in {"chp_1", "chp_none"},
          n \in {1, maxContentLen + 1} :
           CreateCommentLimit(r, 1, tok, ch, n)
    \/ \E r \in ReqIds, ok \in BOOLEAN : CreateCommentChapter(r, ok)
    \/ \E r \in ReqIds : CreateCommentVerify(r)
    \/ \E r \in ReqIds : CreateCommentInsert(r)
    \/ \E r \in ReqIds : CreateCommentAuthor(r)
    \/ \E r \in ReqIds : CreateCommentNotify(r)
    \/ \E r \in ReqIds : CreateCommentRecord(r)
    \/ \E r \in ReqIds : DeleteProfileVerify(r, 1, TokenSeq[1])
    \/ \E r \in ReqIds : DeleteProfileDelete(r)
    \/ DeleteChapter("chp_1")
    \/ Tick(commentCooldown)

SpecCommentFailures == InitSync /\ [][NextCommentFailures]_vars

(* The cache on its own: two keys, two lifetimes, fetches that succeed and
   that fail, and a clock that stops one second short of a lifetime and on it. *)
CacheKeys == {"status", "chapters:1"}
CacheTTLs == {60, novelsCacheTTL}
FetchResults == {[ok |-> TRUE, value |-> "v1"], [ok |-> TRUE, value |-> "v2"],
                 [ok |-> FALSE, value |-> ""]}

NextCache ==
    \/ \E r \in ReqIds, k \in CacheKeys, d \in CacheTTLs : GetOrFetch(r, k, d)
    \/ \E r \in ReqIds : CacheGet(r)
    \/ \E r \in ReqIds, f \in FetchResults : Fetch(r, f)
    \/ \E r \in ReqIds : CacheSet(r)
    \/ \E k \in CacheKeys : CacheDelete(k)
    \/ \E d \in {1, 59} : Tick(d)

SpecCache == InitCatalogue /\ [][NextCache]_vars

(* A rate limiter that starts empty or with a crowd of recent visitors that
   leaves room for one or no further address; two addresses send
   requests, the crowd comes back, the clock passes the eviction and the
   cleanup ages. *)
ClientIPs == {"10.0.0.1", "10.0.0.2"}
CrowdSizes == {0, maxVisitors - 1, maxVisitors}

InitLimiter ==
    /\ users = EmptyMap
    /\ usedIds = {}
    /\ comments = EmptyMap
    /\ lastComment = EmptyMap
    /\ sem = 0
    /\ now = 0
    /\ ticks = 0
    /\ req = [r \in {1} |-> IdleReq]
    /\ issues = << >>
    /\ loginCount = [i \in 1..MaxIssues |-> 0]
    /\ last = NoLast
    /\ minioClient = TRUE
    /\ commentSeq = 0
    /\ deleted = {}
    /\ synced = {}
    /\ delivery = EmptyMap
    /\ telegram = TRUE
    /\ cache = EmptyMap
    /\ executed = {}
    /\ chapters = SeedChapters
    /\ novels = SeedNovels
    /\ lists = EmptyMap
    /\ \E k \in {"api", "web"}, n \in CrowdSizes :
           visitors = [NoVisitors EXCEPT !.kind = k, !.crowd = [count |-> n, lastSeen |-> 0]]

NextLimiter ==
    \/ \E r \in ReqIds, ip \in ClientIPs, a \in BOOLEAN : RateLimitGetVisitor(r, ip, a)
    \/ \E r \in ReqIds : RateLimitAllow(r)
    \/ CrowdRequests
    \/ CleanupVisitors
    \/ \E d \in {1, idleEviction, cleanupAge} : Tick(d)

SpecLimiter ==
    /\ InitLimiter
    /\ [][NextLimiter]_vars

(* Pagination bars for every current page and page count up to MaxTotalPages,
   the current page being in range or one off either end. *)
NextPagination ==
    \E total \in 0..MaxTotalPages, current \in 0..(MaxTotalPages + 1) :
        RenderPagination(current, total)

SpecPagination == InitCatalogue /\ [][NextPagination]_vars

(* The chapters table under its trigger: two novels as the migration left
   them, chapters inserted, deleted and moved to the other novel. *)
InitChapters ==
    /\ users = EmptyMap
    /\ usedIds = {}
    /\ comments = EmptyMap
    /\ lastComment = EmptyMap
    /\ sem = 0
    /\ now = 0
    /\ ticks = 0
    /\ req = [r \in {1, 2} |-> IdleReq]
    /\ issues = << >>
    /\ loginCount = [i \in 1..MaxIssues |-> 0]
    /\ last = NoLast
    /\ minioClient = TRUE
    /\ commentSeq = 0
    /\ deleted = {}
    /\ synced = {}
    /\ delivery = EmptyMap
    /\ telegram = TRUE
    /\ cache = EmptyMap
    /\ executed = {}
    /\ visitors = NoVisitors
    /\ lists = EmptyMap
    /\ \E cs \in {EmptyMap, [c \in {"chp_1"} |-> [novel_id |-> "nov_1", chapter_num |-> 1]]} :
           /\ chapters = cs
           /\ novels = backfill([n \in NovelIDs |-> [chapters_count |-> 0]], cs)

NextChapters ==
    \/ \E id \in ChapterRowIDs, n \in NovelIDs, num \in ChapterNums : InsertChapter(id, n, num)
    \/ \E id \in ChapterRowIDs : DeleteChapter(id)
    \/ \E id \in ChapterRowIDs, n \in NovelIDs : ReassignChapter(id, n)

SpecChapters == InitChapters /\ [][NextChapters]_vars

(* Chapter and Novel pages of a novel of two chapters (a third chapter
   belongs to another novel), two requests at a time, the Novel page sorting
   in descending order. *)
InitPages ==
    /\ users = EmptyMap
    /\ usedIds = {}
    /\ comments = EmptyMap
    /\ lastComment = EmptyMap
    /\ sem = 0
    /\ now = 0
    /\ ticks = 0
    /\ req = [r \in {1, 2} |-> IdleReq]
    /\ issues = << >>
    /\ loginCount = [i \in 1..MaxIssues |-> 0]
    /\ last = NoLast
    /\ minioClient = TRUE
    /\ commentSeq = 0
    /\ deleted = {}
    /\ synced = {}
    /\ delivery = EmptyMap
    /\ telegram = TRUE
    /\ cache = EmptyMap
    /\ executed = {}
    /\ visitors = NoVisitors
    /\ lists = EmptyMap
    /\ chapters = [c \in ChapterRowIDs |->
                      [novel_id |-> IF c = "chp_3" THEN "nov_2" ELSE "nov_1",
                       chapter_num |-> IF c = "chp_1" THEN 2 ELSE IF c = "chp_2" THEN 5 ELSE 1]]
    /\ novels = backfill([n \in NovelIDs |-> [chapters_count |-> 0]], chapters)

NextPages ==
    \/ \E r \in ReqIds : Chapter(r, "nov_1", "chp_2")
    \/ \E r \in ReqIds : Novel(r, "nov_1", "desc")
    \/ \E r \in ReqIds : CacheGet(r)
    \/ \E r \in ReqIds : FetchNovel(r)
    \/ \E r \in ReqIds : FetchChapter(r)
    \/ \E r \in ReqIds, rows \in chaptersGetList("nov_1") : FetchChapters(r, rows)
    \/ \E r \in ReqIds : CacheSet(r)
    \/ \E r \in ReqIds : SortBegin(r)
    \/ \E r \in ReqIds : SortEnd(r)
    \/ \E r \in ReqIds : PageFinish(r)

SpecPages == InitPages /\ [][NextPages]_vars

(* The comment cooldown: overlapping submissions, the clock, the sweep. *)
NextCooldown ==
    \/ \E r \in ReqIds : CreateCommentLimit(r, 1, TokenSeq[1], "chp_1", 1)
    \/ \E r \in ReqIds : CreateCommentChapter(r, TRUE)
    \/ \E r \in ReqIds : CreateCommentVerify(r)
    \/ \E r \in ReqIds : CreateCommentInsert(r)
    \/ \E r \in ReqIds : CreateCommentAuthor(r)
    \/ \E r \in ReqIds : CreateCommentNotify(r)
    \/ \E r \in ReqIds : CreateCommentRecord(r)
    \/ SweepCooldowns
    \/ \E d \in {1, 29, 301} : Tick(d)

SpecCooldown == InitSync /\ [][NextCooldown]_vars

(* The comment pipeline: submission, moderation, listing. *)
InitComments ==
    /\ InitPopulated
    /\ req = [r \in {1} |-> IdleReq]
    /\ minioClient = TRUE
    /\ telegram = TRUE

NextComments ==
    \/ \E r \in ReqIds, p \in ProfileIDs, ch \in ChapterIDs :
           CreateCommentLimit(r, p, TokenSeq[p], ch, 1)
    \/ \E r \in ReqIds : CreateCommentChapter(r, TRUE)
    \/ \E r \in ReqIds : CreateCommentVerify(r)
    \/ \E r \in ReqIds : CreateCommentInsert(r)
    \/ \E r \in ReqIds : CreateCommentAuthor(r)
    \/ \E r \in ReqIds : CreateCommentNotify(r)
    \/ \E r \in ReqIds : CreateCommentRecord(r)
    \/ \E a \in ModerationActions, c \in CommentInputs, e \in BOOLEAN :
           HandleModerationCallback(a, c, e)
    \/ \E r \in ReqIds, ch \in ChapterIDs, pg \in Pages : GetApprovedCommentsCount(r, ch, pg)
    \/ \E r \in ReqIds : GetApprovedCommentsRows(r)
    \/ \E d \in {commentCooldown} : Tick(d)

SpecComments == InitComments /\ [][NextComments]_vars

(* Deletion: a profile with a pending code and comments is removed. *)
InitDelete ==
    /\ InitPopulated
    /\ req = [r \in {1, 2} |-> IdleReq]
    /\ minioClient = TRUE
    /\ telegram = TRUE

NextDelete ==
    \/ \E p \in ProfileIDs : GetProfile(p)
    \/ \E r \in ReqIds : GenerateSyncCodeVerify(r, 1, TokenSeq[1])
    \/ \E r \in ReqIds : GenerateSyncCodeUpdate(r, CodeA)
    \/ \E r \in ReqIds : DeleteProfileVerify(r, 1, TokenSeq[1])
    \/ \E r \in ReqIds : DeleteProfileDelete(r)
    \/ \E r \in ReqIds : CreateCommentLimit(r, 1, TokenSeq[1], "chp_1", 1)
    \/ \E r \in ReqIds : CreateCommentChapter(r, TRUE)
    \/ \E r \in ReqIds : CreateCommentVerify(r)
    \/ \E r \in ReqIds : CreateCommentInsert(r)
    \/ \E r \in ReqIds : CreateCommentAuthor(r)
    \/ \E r \in ReqIds : CreateCommentNotify(r)
    \/ \E r \in ReqIds : CreateCommentRecord(r)
    \/ \E c \in CommentInputs : HandleModerationCallback("approve", c, TRUE)
    \/ \E r \in ReqIds : GetApprovedCommentsCount(r, "chp_1", 1)
    \/ \E r \in ReqIds : GetApprovedCommentsRows(r)

SpecDelete == InitDelete /\ [][NextDelete]_vars

(* The moderation delivery: comments are created and their notifications
   run in the background, with and without credentials. *)
DeliveryOutcomes == {"ok", "request failed", "decode failed", "not ok"}

InitDelivery ==
    /\ InitPopulated
    /\ req = [r \in {1} |-> IdleReq]
    /\ minioClient = TRUE
    /\ telegram \in BOOLEAN

NextDelivery ==
    \/ \E r \in ReqIds, p \in ProfileIDs, tok \in ProvidedTokens :
           CreateCommentLimit(r, p, tok, "chp_1", 1)
    \/ \E r \in ReqIds, ok \in BOOLEAN : CreateCommentChapter(r, ok)
    \/ \E r \in ReqIds : CreateCommentVerify(r)
    \/ \E r \in ReqIds : CreateCommentInsert(r)
    \/ \E r \in ReqIds : CreateCommentAuthor(r)
    \/ \E r \in ReqIds : CreateCommentNotify(r)
    \/ \E r \in ReqIds : CreateCommentRecord(r)
    \/ \E c \in CommentInputs : DeliverySkip(c)
    \/ \E c \in CommentInputs, o \in DeliveryOutcomes : DeliverySend(c, o)
    \/ \E c \in CommentInputs : DeliveryTimeout(c)
    \/ \E d \in {1, 9} : Tick(d)

SpecDelivery == InitDelivery /\ [][NextDelivery]_vars

(* mergeCookies on its own: every pair of bags over two names, two values
   and the timestamps 1..MaxStamp. *)
MergeNames == {NameTheme, NameFont}
MergeValues == {ValueDark, ValueLight}
MergeCvs == {Cv(v, t) : v \in MergeValues, t \in 1..MaxStamp}
MergeMaps == UNION {[d -> MergeCvs] : d \in SUBSET MergeNames}

InitMerge ==
    /\ usedIds = {1}
    /\ \E e \in MergeMaps :
           users = [p \in {1} |->
                       [NewRow(TokenSeq[1], GeneratedName) EXCEPT !.cookies = marshalCookies(e)]]
    /\ \E i \in MergeMaps :
           req = [r \in {1} |->
                     [IdleReq EXCEPT !.pc = "merge", !.op = "merge", !.bag = marshalCookies(i)]]
    /\ minioClient = TRUE
    /\ telegram = TRUE
    /\ InitRest

NextMerge == \E r \in ReqIds, p \in ProfileIDs : MergeCookies(r, p)

SpecMerge == InitMerge /\ [][NextMerge]_vars

(* The avatar semaphore: MaxCallers uploads at once. *)
InitAvatar ==
    /\ InitPopulated
    /\ req = [r \in 1..MaxCallers |-> IdleReq]
    /\ minioClient = TRUE
    /\ telegram = TRUE

NextAvatar ==
    \/ \E r \in ReqIds, p \in ProfileIDs : UpdateAvatarStart(r, p, TokenSeq[1])
    \/ \E r \in ReqIds : UpdateAvatarAcquire(r)
    \/ \E r \in ReqIds : UpdateAvatarCancel(r)
    \/ \E r \in ReqIds : UpdateAvatarStore(r, "ok")
    \/ \E r \in ReqIds : UpdateAvatarRead(r)
    \/ \E r \in ReqIds : UpdateAvatarReturn(r)

SpecAvatar == InitAvatar /\ [][NextAvatar]_vars

(* The avatar semaphore under fair scheduling: semCapacity - 1 uploads are
   being processed when the remaining callers arrive, every caller calls
   once, a call that holds a slot goes on, and a caller that can take a slot
   again and again takes it. *)
InitAvatarFair ==
    /\ users = [p \in ProfileIDs |-> NewRow(TokenSeq[p], GeneratedName)]
    /\ usedIds = ProfileIDs
    /\ InitTables
    /\ sem = semCapacity - 1
    /\ req = [r \in 1..MaxCallers |->
                 IF r < semCapacity
                 THEN [IdleReq EXCEPT !.pc = "av_process", !.op = "avatar", !.profile = 1]
                 ELSE IdleReq]
    /\ minioClient = TRUE
    /\ telegram = TRUE

NextAvatarFair ==
    \/ \E r \in ReqIds : req[r].pc = "idle" /\ UpdateAvatarStart(r, 1, TokenSeq[1])
    \/ \E r \in ReqIds : UpdateAvatarAcquire(r)
    \/ \E r \in ReqIds : UpdateAvatarCancel(r)
    \/ \E r \in ReqIds, o \in {"ok", "s3 upload failed"} : UpdateAvatarStore(r, o)
    \/ \E r \in ReqIds : UpdateAvatarRead(r)
    \/ \E r \in ReqIds : UpdateAvatarReturn(r)

SpecAvatarFair ==
    /\ InitAvatarFair
    /\ [][NextAvatarFair]_vars
    /\ \A r \in 1..MaxCallers :
           /\ WF_vars(\E o \in {"ok", "s3 upload failed"} : UpdateAvatarStore(r, o))
           /\ WF_vars(UpdateAvatarRead(r))
           /\ WF_vars(UpdateAvatarReturn(r))
           /\ SF_vars(UpdateAvatarAcquire(r))

(* ============================== claims ================================ *)

\* C1: no issued sync code ever yields two successful logins, the attempts
\* being sequential or overlapping: every issuance is consumed at most once.
C1_SingleUseLogin == \A i \in DOMAIN loginCount : loginCount[i] <= 1

\* what LoginWithSyncCode makes of each input a client may type
Normalised == [input \in LoginInputs |-> Normalise(input)]

\* C5: a profile has at most one usable sync code.  Whatever a client types,
\* a login that finds profile p was given the code of p's newest issuance;
\* the code of an older issuance of p (a different value) is refused as
\* invalid or expired, or, when the same value has since been handed to
\* another profile, logs into that profile and never into p.
C5_OneUsableCode ==
    \A p \in DOMAIN users :
        /\ Cardinality({Normalised[input] : input \in
                           {x \in LoginInputs : loginSelectCode(Normalised[x]).profile = p}}) <= 1
        /\ \A input \in LoginInputs :
               LET l == loginSelectCode(Normalised[input])
               IN  l.profile = p =>
                      /\ l.issue = LatestIssue(p)
                      /\ l.code = issues[LatestIssue(p)].code
        /\ \A i \in 1..Len(issues), input \in LoginInputs :
               LET l == loginSelectCode(Normalised[input])
               IN  (/\ issues[i].profile = p
                    /\ i # LatestIssue(p)
                    /\ issues[i].code # issues[LatestIssue(p)].code
                    /\ Normalised[input] = issues[i].code)
                   => \/ l.pc = "done" /\ l.status = "invalid or expired sync code"
                      \/ l.pc = "login_clear" /\ l.profile # p

\* a profile regenerated its code, and a later login with the older code,
\* still inside its 15 minutes, was refused
C5_Witness ==
    \E r \in DOMAIN req, p \in DOMAIN users :
        /\ Len(issues) = 2
        /\ issues[1].profile = p /\ issues[2].profile = p
        /\ issues[1].code # issues[2].code
        /\ users[p].sync_code = issues[2].code
        /\ req[r].pc = "done" /\ req[r].op = "login"
        /\ req[r].status = "invalid or expired sync code"
        /\ req[r].code = issues[1].code
        /\ users[p].issued_at < req[r].at /\ req[r].at < SyncCodeTTL

\* C6: a sync code is usable only for 15 minutes.  At or after issuance +
\* SyncCodeTTL a login with the pending, unused code is refused as invalid or
\* expired and carries no secret token; a login the store let through was
\* made before issuance + SyncCodeTTL.
C6_ExpiresAfterTTL ==
    /\ \A p \in DOMAIN users, input \in LoginInputs :
           (/\ users[p].sync_code # NULL
            /\ Normalise(input) = users[p].sync_code
            /\ now >= users[p].issued_at + SyncCodeTTL)
           => LET l == loginSelect(input)
              IN  /\ l.pc = "done"
                  /\ l.status = "invalid or expired sync code"
                  /\ l.token = NoToken
                  /\ l.profile = NoProfile
    /\ \A r \in DOMAIN req :
           req[r].pc = "login_clear" => req[r].at < req[r].issued_at + SyncCodeTTL

\* exactly 15 minutes after issuance a login with the pending code was refused
C6_Witness ==
    \E r \in DOMAIN req, p \in DOMAIN users :
        /\ users[p].sync_code # NULL
        /\ now = users[p].issued_at + SyncCodeTTL
        /\ req[r].pc = "done" /\ req[r].op = "login"
        /\ req[r].status = "invalid or expired sync code"
        /\ req[r].code = users[p].sync_code
        /\ req[r].at = now
        /\ req[r].token = NoToken

\* C2: under any interleaving of CreateComment calls no profile gets two
\* comments accepted less than commentCooldown apart, and a submission made
\* 31 seconds or more after the accepted one passes the cooldown check.
C2_CooldownHolds ==
    /\ \A c, d \in DOMAIN comments :
           (c # d /\ comments[c].user_id = comments[d].user_id
                  /\ comments[c].created_at <= comments[d].created_at)
           => comments[d].created_at - comments[c].created_at >= commentCooldown
    /\ \A p \in DOMAIN lastComment :
           now - lastComment[p] >= commentCooldown + 1 => checkCommentRateLimit(p)

\* the reference last-write-wins merge
RefMerge(existing, incoming) ==
    [n \in DOMAIN existing \cup DOMAIN incoming |->
        IF n \in DOMAIN existing /\ n \in DOMAIN incoming
        THEN IF incoming[n].updated_at > existing[n].updated_at
             THEN incoming[n] ELSE existing[n]
        ELSE IF n \in DOMAIN existing THEN existing[n] ELSE incoming[n]]

\* C3: mergeCookies(existing, incoming) equals the reference last-write-wins
\* merge for every stored bag and every incoming bag: a name in both takes
\* the incoming entry iff its updated_at is strictly later (a tie keeps the
\* existing entry), a name on one side passes through, no other name appears.
C3_MergeIsLastWriteWins ==
    \A p \in DOMAIN users, r \in DOMAIN req :
        LET existing == unmarshalCookies(users[p].cookies)
            incoming == unmarshalCookies(req[r].bag)
            merged == mergeCookies(existing, incoming)
        IN  /\ merged = RefMerge(existing, incoming)
            /\ DOMAIN merged = DOMAIN existing \cup DOMAIN incoming

\* a merge has run whose result keeps a stored entry against an incoming one
\* with the same timestamp and another value, and holds an incoming entry
\* that carries the latest timestamp
C3_Witness ==
    \E r \in DOMAIN req :
        /\ req[r].pc = "merged"
        /\ LET stored == unmarshalCookies(users[req[r].profile].cookies)
               incoming == unmarshalCookies(req[r].bag)
           IN  /\ \E n \in DOMAIN stored \cap DOMAIN incoming :
                      /\ incoming[n].updated_at = stored[n].updated_at
                      /\ incoming[n].value # stored[n].value
               /\ \E n \in DOMAIN stored \cap DOMAIN incoming :
                      /\ stored[n] = incoming[n]
                      /\ stored[n].updated_at = MaxStamp

\* C4: a comment's status changes only from pending, and only to approved or
\* rejected; an approved or rejected comment keeps its status under every
\* later moderation callback, and a new comment starts pending.
C4_StatusOnlyFromPending ==
    [][ /\ \A c \in DOMAIN comments \cap DOMAIN comments' :
               comments'[c].status # comments[c].status
               => /\ comments[c].status = "pending"
                  /\ comments'[c].status \in {"approved", "rejected"}
        /\ \A c \in DOMAIN comments' \ DOMAIN comments :
               comments'[c].status = "pending"
        /\ \A c \in DOMAIN comments, st \in CommentStatuses :
               comments[c].status # "pending"
               => UpdateCommentStatus(c, st).comments = comments ]_vars

\* every comment is approved or rejected and the callback that ran last was
\* refused
C4_Witness ==
    /\ DOMAIN comments = 1..MaxComments
    /\ \E c \in DOMAIN comments : comments[c].status = "approved"
    /\ \E c \in DOMAIN comments : comments[c].status = "rejected"
    /\ last.op = "moderate" /\ last.status = "error"

\* a call refused for its token ends in its first step and writes nothing
RefusedInFirstStep ==
    \A r \in DOMAIN req :
        (/\ req'[r] # req[r]
         /\ req'[r].pc = "done"
         /\ req'[r].status = "invalid secret token")
        => /\ req[r].pc \in {"idle", "done"}
           /\ UNCHANGED <<users, comments>>

\* C7: GenerateSyncCode, SyncCookies, UpdateDisplayName, UpdateAvatar and
\* DeleteProfile, called with a token that differs from the stored one or for
\* a profile id that does not exist, fail and leave users and comments as
\* they were: the call ends at the token check, before any write step, also
\* while another request is between two of its statements.
C7_WrongTokenChangesNothing ==
    /\ [](\A p \in ProfileIDs, tok \in ProvidedTokens \cup {"tokZ"} :
            (p \notin DOMAIN users \/ users[p].secret_token # tok)
            => /\ \A c \in SyncCodes :
                      LET g == generateSyncCode(p, tok, c)
                      IN  g.status = "invalid secret token" /\ g.users = users
               /\ \A cs \in CookieInputs :
                      LET x == syncCookiesRead(p, tok, cs)
                      IN  x.pc = "done" /\ x.status = "invalid secret token"
               /\ \A n \in NameInputs :
                      LET u == updateDisplayName(p, tok, n)
                      IN  u.status = "invalid secret token" /\ u.users = users
               /\ LET a == updateAvatarStart(p, tok)
                  IN  a.pc = "done" /\ a.status \in {"invalid secret token", "s3 not configured"}
               /\ LET d == deleteProfile(p, tok)
                  IN  /\ d.status = "invalid secret token"
                      /\ d.users = users /\ d.comments = comments)
    /\ [][RefusedInFirstStep]_vars

\* a profile with a pending code, cookies, a custom name and a custom avatar
\* survived a cookie sync and a deletion attempted with a wrong token
C7_Witness ==
    \E p \in DOMAIN users, r \in DOMAIN req :
        /\ users[p].sync_code # NULL
        /\ users[p].cookies # {}
        /\ users[p].display_name # GeneratedName
        /\ users[p].has_custom_avatar
        /\ req[r].pc = "done" /\ req[r].op = "sync"
        /\ req[r].status = "invalid secret token"
        /\ last.op = "delete" /\ last.status = "invalid secret token"

\* C8: once DeleteProfile has succeeded for a profile, GetProfile answers
\* not found, no token authenticates it, no login reaches it (the code it
\* had pending is refused unless another profile has since been issued the
\* same value), and no listing returns a comment of it.
C8_DeletedIsGone ==
    \A p \in deleted :
        /\ getProfile(p).status = "not found"
        /\ \A tok \in ProvidedTokens \cup {TokenSeq[i] : i \in DOMAIN TokenSeq} :
               ~verifySecretToken(p, tok)
        /\ \A input \in LoginInputs :
               LET l == loginSelect(input)
               IN  /\ l.profile # p
                   /\ (\A q \in DOMAIN users : users[q].sync_code # Normalise(input))
                      => l.pc = "done"
        /\ \A ch \in ChapterInputs, pg \in Pages :
               \A res \in getApprovedComments(ch, pg) :
                   \A i \in 1..Len(res.comments) : comments[res.comments[i]].user_id # p
        /\ \A c \in DOMAIN comments : comments[c].user_id # p

\* a profile with an unused code and a comment was deleted by a request that
\* has returned; its comment is gone, a login with that code is refused and
\* GetProfile has answered not found
C8_Witness ==
    \E p \in deleted, i \in 1..Len(issues), r \in DOMAIN req :
        /\ issues[i].profile = p /\ loginCount[i] = 0
        /\ commentSeq > Cardinality(DOMAIN comments)
        /\ req[r].pc = "done" /\ req[r].op = "delete" /\ req[r].status = "ok"
        /\ loginSelect(issues[i].code).status = "invalid or expired sync code"
        /\ last.op = "get" /\ last.status = "not found"

\* C9: every page GetApprovedComments can return holds only comments of the
\* chapter asked for whose status is approved; pending and rejected comments
\* are in no page, for a call run at once and for a call whose listing
\* statement runs after other requests have followed its count.
C9_ListsOnlyApproved ==
    /\ \A ch \in ChapterInputs, pg \in Pages :
           \A res \in getApprovedComments(ch, pg) :
               \A i \in 1..Len(res.comments) :
                   /\ res.comments[i] \in DOMAIN comments
                   /\ comments[res.comments[i]].chapter_id = ch
                   /\ comments[res.comments[i]].status = "approved"
    /\ \A r \in DOMAIN req :
           req[r].pc = "list_rows"
           => \A res \in getApprovedCommentsRows(req[r].chapter, req[r].page, req[r].count) :
                  \A i \in 1..Len(res.comments) :
                      /\ res.comments[i] \in DOMAIN comments
                      /\ comments[res.comments[i]].chapter_id = req[r].chapter
                      /\ comments[res.comments[i]].status = "approved"

\* a chapter holds an approved comment and one that is not approved, and a
\* listing has run
C9_Witness ==
    /\ \E c, d \in DOMAIN comments :
           /\ comments[c].chapter_id = comments[d].chapter_id
           /\ comments[c].status = "approved"
           /\ comments[d].status # "approved"
           /\ \E res \in getApprovedComments(comments[c].chapter_id, 1) :
                  Len(res.comments) = 1
    /\ last.op = "list" /\ last.status = "ok"

\* the calls that hold a slot of the semaphore: processing the image, storing
\* it, reading the profile back, about to return
Processing == {r \in DOMAIN req : req[r].pc \in {"av_process", "av_read", "av_return"}}

\* C10: at most semCapacity UpdateAvatar calls are inside image processing
\* (between taking a slot and the deferred release) at any moment, the
\* semaphore counts exactly those, and while semCapacity are processing no
\* waiting caller can start.
C10_AtMostFiveProcessing ==
    /\ Cardinality(Processing) <= semCapacity
    /\ sem = Cardinality(Processing)
    /\ Cardinality(Processing) = semCapacity => ~semHasRoom

\* five callers hold a slot, one of them still processing and one already
\* reading the profile back, and a sixth is waiting at the select
C10_Witness ==
    /\ Cardinality(Processing) = semCapacity
    /\ \E r \in DOMAIN req : req[r].pc = "av_process"
    /\ \E r \in DOMAIN req : req[r].pc = "av_read"
    /\ \E r \in DOMAIN req : req[r].pc = "av_wait"

\* a call that has inserted its comment returns success
InsertedReturnsOk ==
    \A r \in DOMAIN req :
        (req[r].pc \in {"cc_author", "cc_notify", "cc_record"} /\ req'[r].pc = "done")
        => req'[r].status = "ok"

\* C11: what CreateComment returns does not depend on the moderation
\* delivery: with or without credentials, and whether earlier deliveries
\* were stored, failed, timed out or were skipped, a comment that passed the
\* checks is inserted with status pending and the call reports success; no
\* delivery outcome removes or changes a stored comment.
C11_ResultIndependentOfDelivery ==
    /\ [](\A p \in DOMAIN users, ch \in ChapterIDs :
             LET ins == createCommentInsert(p, ch)
             IN  /\ ins.status = "ok"
                 /\ commentSeq + 1 \in DOMAIN ins.comments
                 /\ ins.comments[commentSeq + 1].status = "pending"
                 /\ ins.comments[commentSeq + 1].user_id = p
                 /\ ins.comments[commentSeq + 1].chapter_id = ch)
    /\ [](\A c \in DOMAIN delivery :
             /\ c \in DOMAIN comments
             /\ comments[c].status = "pending")
    /\ [](\A r \in DOMAIN req :
             (req[r].pc = "done" /\ req[r].op = "comment" /\ commentSeq > 0)
             => req[r].status # "insert failed")
    /\ [][InsertedReturnsOk]_vars

\* one delivery failed, another ran into its timeout, both comments are
\* stored pending and the author was answered with success
C11_Witness ==
    /\ DOMAIN delivery = {1, 2}
    /\ delivery[1].pc = "request failed"
    /\ delivery[2].pc = "context done"
    /\ comments[1].status = "pending" /\ comments[2].status = "pending"
    /\ \E r \in DOMAIN req : req[r].pc = "done" /\ req[r].status = "ok"

\* C12: the delivery started by CreateComment is not cancelled by the end or
\* the cancellation of the request that created the comment: it ends with a
\* context error only when its own timeout has passed, and a finished
\* request leaves a running delivery running.
C12_DeliveryOutlivesRequest ==
    [][ \A c \in DOMAIN delivery :
            /\ (delivery[c].pc = "running" /\ delivery'[c].pc = "context done")
               => now >= delivery[c].started_at
                         + Min(deliveryTimeout, telegramClientTimeout)
            /\ delivery[c].ctx # "request" ]_vars

\* after the creating request has finished and time has passed, a delivery
\* stored its message id, and another ended on its own timeout
C12_Witness ==
    /\ DOMAIN delivery = {1, 2}
    /\ \A r \in DOMAIN req : req[r].pc = "done"
    /\ delivery[1].pc = "ok" /\ comments[1].telegram_message_id # NoMessage
    /\ now > delivery[1].started_at
    /\ delivery[2].pc = "context done"

\* C13: in HandleModerationCallback a status change that was applied stays
\* applied when the edit of the moderation message fails: for every pending
\* comment and either button the comment has the new status after the
\* callback, whether the edit succeeded or not.
C13_EditFailureKeepsStatus ==
    \A c \in DOMAIN comments, a \in {"approve", "reject"}, postOK \in BOOLEAN :
        comments[c].status = "pending"
        => LET h == handleModerationCallback(a, c, postOK)
           IN  /\ h.status \in {"ok", "edit failed"}
               /\ h.comments[c].status = IF a = "approve" THEN "approved" ELSE "rejected"
               /\ h.comments = UpdateCommentStatus(
                                   c, IF a = "approve" THEN "approved" ELSE "rejected").comments

\* the callback that ran last approved a comment and its edit failed; the
\* comment is approved
C13_Witness ==
    /\ last.op = "moderate" /\ last.status = "edit failed"
    /\ \E c \in DOMAIN comments :
           /\ comments[c].status = "approved"
           /\ \A d \in DOMAIN comments \ {c} : comments[d].status = "pending"

\* C14: when the drawn sync code is already held by another profile, the
\* generator retries with a fresh code, so a caller presenting its own secret
\* token is never refused because of a collision: GenerateSyncCode succeeds
\* for every authenticated profile and every drawn code.
C14_CollisionNeverShown ==
    \A p \in DOMAIN users, c \in SyncCodes :
        generateSyncCode(p, users[p].secret_token, c).status = "ok"

\* a successful login answers with the profile that generated the code, with
\* the secret token CreateProfile gave that profile (no operation changes a
\* token), and with the cookie bag as the row holds it when the login reads it
LoginReturnsOwnerTokenAndStoredBag ==
    /\ \A p \in DOMAIN users : users[p].secret_token = TokenSeq[p]
    /\ \A input \in LoginInputs :
           LET l == loginSelect(input)
               resp == loginResponse(l)
           IN  l.pc = "login_clear"
               => /\ resp.profile \in DOMAIN users
                  /\ issues[LatestIssue(resp.profile)]
                        = [profile |-> resp.profile, code |-> Normalise(input)]
                  /\ l.issue = LatestIssue(resp.profile)
                  /\ resp.secret_token = TokenSeq[resp.profile]
                  /\ resp.cookies = unmarshalCookies(users[resp.profile].cookies)
    /\ \A r \in DOMAIN req :
           req[r].pc = "login_clear"
           => /\ loginResponse(req[r]).secret_token = TokenSeq[req[r].profile]
              /\ issues[req[r].issue] = [profile |-> req[r].profile, code |-> req[r].code]

\* a login that starts once a SyncCookies call carrying a valid cookie has
\* returned ok for the profile answers with a bag that is not empty
SyncedBagIsNotEmpty ==
    \A input \in LoginInputs :
        LET l == loginSelect(input)
        IN  (l.pc = "login_clear" /\ l.profile \in synced)
            => DOMAIN loginResponse(l).cookies # {}

\* C15: a successful LoginWithCode answers with the profile that generated
\* the code, with the secret token CreateProfile gave that profile (no
\* operation changes a token), and with the cookie bag as it is stored when
\* the login reads the row, which is not empty if valid cookies were synced
\* before the login.
C15_LoginReturnsOwnerTokenAndBag ==
    /\ LoginReturnsOwnerTokenAndStoredBag
    /\ SyncedBagIsNotEmpty

\* a users table that differs from the state's only in the token of q
OtherTokens == {"tokA", "tokB", "tokZ"}
withToken(q, t) == [users EXCEPT ![q].secret_token = t]

\* C16, as stated: the outputs of Get, GenerateSyncCode, SyncCookies,
\* UpdateDisplayName, UpdateAvatar, CreateComment and ListApproved are the
\* same, for the same request, in any two states that differ only in the
\* value of a profile's secret token.
C16_OutputsIgnoreTokenValue ==
    \A q \in DOMAIN users, t \in OtherTokens :
        LET us == withToken(q, t)
        IN  /\ \A p \in ProfileIDs : getProfileResponse(us, p) = getProfileResponse(users, p)
            /\ \A ch \in ChapterIDs, pg \in Pages :
                   getApprovedCommentsResponse(us, ch, pg)
                       = getApprovedCommentsResponse(users, ch, pg)
            /\ \A p \in ProfileIDs, tok \in ProvidedTokens :
                   /\ generateSyncCodeResponse(us, p, tok, CodeA)
                          = generateSyncCodeResponse(users, p, tok, CodeA)
                   /\ syncCookiesResponse(us, p, tok, One(NameTheme, Cv(ValueDark, 1)))
                          = syncCookiesResponse(users, p, tok, One(NameTheme, Cv(ValueDark, 1)))
                   /\ updateDisplayNameResponse(us, p, tok, NameBob)
                          = updateDisplayNameResponse(users, p, tok, NameBob)
                   /\ updateAvatarResponse(us, p, tok, "ok")
                          = updateAvatarResponse(users, p, tok, "ok")
                   /\ createCommentResponse(us, p, tok, "chp_1", 1, TRUE)
                          = createCommentResponse(users, p, tok, "chp_1", 1, TRUE)

\* the token a profile's owner presents to the table us
Presented(us, p) == IF p \in DOMAIN us THEN us[p].secret_token ELSE NoToken

\* the authenticated operations answer a request that presents t1 to the
\* state's table as they answer the one that presents t2 to us
SameAnswers(us, p, t1, t2) ==
    /\ generateSyncCodeResponse(us, p, t2, CodeA)
           = generateSyncCodeResponse(users, p, t1, CodeA)
    /\ syncCookiesResponse(us, p, t2, One(NameTheme, Cv(ValueDark, 1)))
           = syncCookiesResponse(users, p, t1, One(NameTheme, Cv(ValueDark, 1)))
    /\ updateDisplayNameResponse(us, p, t2, NameBob)
           = updateDisplayNameResponse(users, p, t1, NameBob)
    /\ updateAvatarResponse(us, p, t2, "ok") = updateAvatarResponse(users, p, t1, "ok")
    /\ createCommentResponse(us, p, t2, "chp_1", 1, TRUE)
           = createCommentResponse(users, p, t1, "chp_1", 1, TRUE)

\* no answer to a request that presents tok has a secret_token field
NoTokenField(p, tok) ==
    "secret_token" \notin
        DOMAIN generateSyncCodeResponse(users, p, tok, CodeA)
            \cup DOMAIN syncCookiesResponse(users, p, tok, One(NameTheme, Cv(ValueDark, 1)))
            \cup DOMAIN updateDisplayNameResponse(users, p, tok, NameBob)
            \cup DOMAIN updateAvatarResponse(users, p, tok, "ok")
            \cup DOMAIN createCommentResponse(users, p, tok, "chp_1", 1, TRUE)

\* C16, amended: the outputs of Get and ListApproved are the same in any two
\* states that differ only in a token value; the outputs of the authenticated
\* operations are the same when the caller presents in each state that
\* state's token, and when the caller presents a value that is the token in
\* neither state; none of these outputs has a secret_token field.
C16_OutputsIgnoreTokenValueAmended ==
    /\ \A p \in ProfileIDs :
           /\ "secret_token" \notin DOMAIN getProfileResponse(users, p)
           /\ \A tok \in ProvidedTokens \cup {Presented(users, p)} : NoTokenField(p, tok)
    /\ \A q \in DOMAIN users, t \in OtherTokens :
        LET us == withToken(q, t)
        IN  /\ \A p \in ProfileIDs :
                   getProfileResponse(us, p) = getProfileResponse(users, p)
            /\ \A ch \in ChapterIDs, pg \in Pages :
                   getApprovedCommentsResponse(us, ch, pg)
                       = getApprovedCommentsResponse(users, ch, pg)
            /\ \A p \in ProfileIDs :
                   /\ SameAnswers(us, p, Presented(users, p), Presented(us, p))
                   /\ \A tok \in ProvidedTokens :
                          (p # q \/ tok \notin {users[q].secret_token, t})
                          => SameAnswers(us, p, tok, tok)

\* two profiles exist, profile 1 has an approved comment that the listing
\* returns with its display name, and its owner's GenerateSyncCode succeeds
C16_Witness ==
    /\ DOMAIN users = {1, 2}
    /\ generateSyncCodeResponse(users, 1, users[1].secret_token, CodeA).status = "ok"
    /\ createCommentResponse(users, 2, users[2].secret_token, "chp_1", 1, TRUE).status = "ok"
    /\ \E pg \in getApprovedCommentsResponse(users, "chp_1", 1) :
           /\ Len(pg.comments) = 1
           /\ pg.comments[1].user_id = 1
           /\ pg.comments[1].user_display_name = GeneratedName

\* C17: for every sort string that reaches the listing query, an enum value
\* from the API or any value from the kappalib_catalog_sort cookie, the
\* statement executed is one of the six fixed ORDER BY variants; a value that
\* is not recognised gives the 'oldest' ordering, and the input is no piece
\* of the statement.
C17_SortIsAllowListed ==
    /\ \A sort \in SortInputs :
           /\ finalQuery(sort) \in {finalQuery(s) : s \in SortEnum}
           /\ sort \notin SortEnum => finalQuery(sort) = finalQuery("oldest")
           /\ \A i \in DOMAIN finalQuery(sort) : finalQuery(sort)[i] # sort
    /\ Cardinality({finalQuery(s) : s \in SortEnum}) = 6
    /\ \A e \in executed :
           /\ e.sql \in {finalQuery(s) : s \in SortEnum}
           /\ e.sort \notin SortEnum => e.sql = finalQuery("oldest")
           /\ \A i \in DOMAIN e.sql : e.sql[i] # e.sort

\* the home page was asked for with a cookie value that is no sort order and
\* with one that differs from an enum value in case only; both statements
\* were executed, ordered as 'oldest'
C17_Witness ==
    /\ \E e \in executed : e.sort = "title; DROP TABLE novels --"
    /\ \E e \in executed : e.sort = "NEWEST"
    /\ \A e \in executed : e.sql[2] = "ORDER BY year_start ASC, title ASC"

\* a display name as the store may hold it after a rename
ValidName(name) ==
    /\ Len(name) \in 1..15
    /\ \A i \in 1..Len(name) : name[i] \in Letters \cup Digits \cup {" "}
    /\ name[1] # " " /\ name[Len(name)] # " "
    /\ \A i \in 1..(Len(name) - 1) : ~(name[i] = " " /\ name[i + 1] = " ")

\* what ValidateDisplayName answers to each input of the model
ValidatorAcceptsValidNames ==
    /\ \A n \in NameInputs :
           LET v == ValidateDisplayName(n)
           IN  /\ v.ok => ValidName(v.name)
               /\ ValidName(Sanitize(n)) => (v.ok /\ v.name = Sanitize(n))
    /\ ~ValidateDisplayName(Name16).ok
    /\ ~ValidateDisplayName(Name16Tagged).ok
    /\ ValidateDisplayName(Name15) = [ok |-> TRUE, name |-> Name15, err |-> ""]
    /\ ValidateDisplayName(Name15Tagged) = [ok |-> TRUE, name |-> Name15, err |-> ""]

\* C18: the display name of every profile is the generated one or a validated
\* value: not empty, at most 15 code points, only letters, digits and single
\* spaces, no space at either end, markup removed before the checks; a name
\* of 16 code points is rejected and one of 15 accepted.
C18_DisplayNamesAreValid ==
    /\ \A p \in DOMAIN users :
           users[p].display_name = GeneratedName \/ ValidName(users[p].display_name)
    /\ \A r \in DOMAIN req : req[r].pc = "rename_update" => ValidName(req[r].code)
    /\ ValidatorAcceptsValidNames

\* profile 1 was renamed with 15 letters inside a tag, profile 2 with spaces
\* and a tab around two symbols, and the rename that ran last was refused
C18_Witness ==
    /\ DOMAIN users = {1, 2}
    /\ users[1].display_name = Name15
    /\ users[2].display_name = <<"a", " ", "1">>
    /\ last = Out("rename", "invalid name")

\* C19: every entry of every stored cookie bag has a valid name and a valid
\* value; an incoming entry that fails either check is never stored, whatever
\* else the request carries.
C19_StoredCookiesAreValid ==
    /\ \A p \in DOMAIN users : \A m \in users[p].cookies :
           cookieNameRegex(m.name) /\ cookieValueRegex(m.value)
    /\ \A r \in DOMAIN req : \A m \in req[r].bag :
           req[r].pc = "sync_write" => cookieNameRegex(m.name) /\ cookieValueRegex(m.value)
    /\ \A p \in DOMAIN users, cs \in CookieInputs :
           LET w == syncCookiesRead(p, users[p].secret_token, cs)
           IN  /\ w.pc = "sync_write"
               /\ \A n \in DOMAIN cs :
                      ~(cookieNameRegex(n) /\ cookieValueRegex(cs[n].value))
                      => [name |-> n, value |-> cs[n].value,
                          updated_at |-> cs[n].updated_at] \notin w.bag
               /\ \A n \in DOMAIN cs :
                      (cookieNameRegex(n) /\ cookieValueRegex(cs[n].value))
                      => \E m \in w.bag : m.name = n

\* profile 1 sent a valid entry together with one whose name is not a
\* kappalib cookie and the valid one is stored alone; profile 2 holds one
\* entry and a request of its owner is about to write a bag that is no larger
C19_Witness ==
    /\ users[1].cookies = marshalCookies(One(NameFont, Cv(ValueDark, 1)))
    /\ users[2].cookies = marshalCookies(One(NameTheme, Cv(ValueLight, 1)))
    /\ \E r \in DOMAIN req :
           /\ req[r].pc = "sync_write" /\ req[r].profile = 2
           /\ req[r].bag = users[2].cookies

\* what the first statement of a listing counts
CountIsOfApproved ==
    \A r \in DOMAIN req :
        (req'[r].pc = "list_rows" /\ req[r].pc # "list_rows")
        => req'[r].count = queryCommentsCountApproved(req'[r].chapter)

\* C20: for any page from 1 on, ListApproved returns at most 12 comments and
\* TotalPages is TotalCount / 12 rounded up, TotalCount being the number of
\* approved comments of the chapter that the count statement found; a chapter
\* with no approved comment gives the empty list, TotalCount 0 and TotalPages
\* 0, and no error.  This holds for every listing in flight, whatever was
\* moderated or deleted between its two statements.
C20_PagesOfTwelve ==
    /\ [](\A ch \in ChapterIDs, page \in 1..MaxPage :
             queryCommentsCountApproved(ch) = 0
             => getApprovedComments(ch, page)
                    = {[comments |-> << >>, total_count |-> 0, total_pages |-> 0]})
    /\ [](\A r \in DOMAIN req :
             req[r].pc = "list_rows"
             => /\ req[r].count > 0
                /\ \A pg \in getApprovedCommentsRows(req[r].chapter, req[r].page, req[r].count) :
                       /\ Len(pg.comments) <= 12
                       /\ pg.total_count = req[r].count
                       /\ pg.total_pages * 12 >= pg.total_count
                       /\ (pg.total_pages - 1) * 12 < pg.total_count)
    /\ [][CountIsOfApproved]_vars

\* a listing of page 2 counted 13 approved comments of a chapter and is about
\* to read its rows: page 1 can hold 12 of them, page 2 the thirteenth,
\* page 3 none, TotalPages is 2; the other chapter has none
C20_Witness ==
    /\ queryCommentsCountApproved("chp_1") = 13
    /\ \E r \in DOMAIN req :
           /\ req[r].pc = "list_rows" /\ req[r].chapter = "chp_1"
           /\ req[r].page = 2 /\ req[r].count = 13
    /\ \E pg \in getApprovedComments("chp_1", 1) : Len(pg.comments) = 12
    /\ \E pg \in getApprovedComments("chp_1", 2) :
           Len(pg.comments) = 1 /\ pg.total_pages = 2
    /\ \A pg \in getApprovedComments("chp_1", 3) : pg.comments = << >>
    /\ getApprovedComments("chp_2", 1)
           = {[comments |-> << >>, total_count |-> 0, total_pages |-> 0]}

\* C21: a CreateComment call that fails at any step (length, cooldown,
\* CAPTCHA, chapter, authentication, INSERT) changes nothing: the step in
\* which the call ends with an error adds no comment row, starts no delivery
\* and leaves every cooldown timestamp as it was.
C21_FailedCommentChangesNothing ==
    [][ \A r \in DOMAIN req :
            (/\ req'[r] # req[r]
             /\ req'[r].op = "comment"
             /\ req'[r].pc = "done"
             /\ req'[r].status # "ok")
            => UNCHANGED <<comments, lastComment, delivery, commentSeq>> ]_vars

\* one request was refused by a check and another failed at the INSERT
\* because its author had deleted the profile; there is no comment, no
\* delivery and no cooldown timestamp
C21_Witness ==
    /\ req[1].op = "comment" /\ req[1].pc = "done" /\ req[1].status = "insert failed"
    /\ req[2].op = "comment" /\ req[2].pc = "done"
    /\ req[2].status = "captcha verification failed"
    /\ comments = EmptyMap /\ delivery = EmptyMap /\ lastComment = EmptyMap

\* C22: replaying a SyncCookies request is idempotent: for every stored bag
\* and every incoming set, the second application of the same set stores and
\* returns the bag the first application stored and returned.
C22_ReplayIsIdempotent ==
    \A p \in DOMAIN users, cs \in CookieInputs :
        LET tok == users[p].secret_token
            first == syncCookiesResponse(users, p, tok, cs)
            afterFirst == [users EXCEPT ![p].cookies = syncCookiesRead(p, tok, cs).bag]
            second == syncCookiesResponse(afterFirst, p, tok, cs)
        IN  /\ first.status = "ok" /\ second.status = "ok"
            /\ second.cookies = first.cookies
            /\ marshalCookies(second.cookies) = afterFirst[p].cookies
            /\ marshalCookies(first.cookies) = afterFirst[p].cookies

\* profile 1 holds an entry with the latest timestamp next to an older one,
\* and a request of its owner that sent one of them again is about to write
\* the same bag
C22_Witness ==
    /\ users[1].cookies
           = marshalCookies(Two(NameTheme, Cv(ValueLight, 2), NameFont, Cv(ValueDark, 1)))
    /\ \E r \in DOMAIN req :
           /\ req[r].pc = "sync_write" /\ req[r].profile = 1
           /\ req[r].bag = users[1].cookies

\* C23: the slot UpdateAvatar takes is released when the call returns, on
\* success and on every error path, so under fair scheduling a caller blocked
\* on the semaphore leaves the wait: it gets a slot, unless its context is
\* cancelled first.
C23_WaiterGetsSlot ==
    \A r \in 1..MaxCallers :
        (req[r].pc = "av_wait")
            ~> (req[r].pc = "av_process"
                \/ (req[r].pc = "done" /\ req[r].status = "context canceled"))

\* an upload has just failed on its way to storage while a caller waits:
\* the slot is free again, four calls are processing and the waiter can
\* take the fifth slot
C23_Witness ==
    /\ \E r \in DOMAIN req : req[r].pc = "done" /\ req[r].status = "s3 upload failed"
    /\ \E r \in DOMAIN req : req[r].pc = "av_wait"
    /\ Cardinality({r \in DOMAIN req : req[r].pc = "av_process"}) = semCapacity - 1
    /\ sem = semCapacity - 1

\* the steps of a GetOrFetch call of a caller of the package
GetOrFetchSteps ==
    \A r \in DOMAIN req :
        LET k == req[r].code
            live == k \in DOMAIN cache /\ cache[k].expiration > now
        IN  (req[r].op = "fetch" /\ req'[r] # req[r])
            => /\ (req[r].pc = "cache_get" /\ live)
                  => /\ req'[r].pc = "done" /\ req'[r].status = "cached"
                     /\ cache' = cache
               /\ (req[r].pc = "cache_get" /\ ~live) => (req'[r].pc = "fetch" /\ cache' = cache)
               /\ req[r].pc = "fetch"
                  => /\ cache' = cache
                     /\ \/ req'[r].pc = "cache_set"
                        \/ req'[r].pc = "done" /\ req'[r].status = "error"
               /\ req[r].pc = "cache_set"
                  => /\ req'[r].pc = "done" /\ req'[r].status = "fetched"
                     /\ cache'[k] = [value |-> req[r].value, expiration |-> now + req[r].count]
                     /\ \A j \in DOMAIN cache \ {k} : cache'[j] = cache[j]

\* C24: GetOrFetch returns the stored value without calling fetch iff the
\* cache holds an entry for the key whose expiration has not been reached
\* when it looks; otherwise it calls fetch once, and on success stores the
\* result with expiration now + ttl and returns it, while on a fetch error it
\* returns the error and leaves the cache as it was.
C24_GetOrFetchContract ==
    /\ [](\A k \in CacheKeys, d \in CacheTTLs, f \in FetchResults :
            LET g == getOrFetch(k, d, f)
                live == k \in DOMAIN cache /\ cache[k].expiration > now
            IN  /\ g.calls = 0 <=> live
                /\ live => (~g.err /\ g.value = cache[k].value /\ g.cache = cache)
                /\ ~live => g.calls = 1
                /\ (~live /\ f.ok)
                   => /\ ~g.err /\ g.value = f.value
                      /\ DOMAIN g.cache = DOMAIN cache \cup {k}
                      /\ g.cache[k] = [value |-> f.value, expiration |-> now + d]
                      /\ \A j \in DOMAIN cache \ {k} : g.cache[j] = cache[j]
                /\ (~live /\ ~f.ok) => (g.err /\ g.cache = cache))
    /\ [][GetOrFetchSteps]_vars

\* one entry has reached its expiration at this very second and is still in
\* the map, the other has a second left, and the fetch that ran last failed
C24_Witness ==
    /\ DOMAIN cache = CacheKeys
    /\ cache["status"].expiration = now
    /\ cache["chapters:1"].expiration = now + 1
    /\ last = Out("fetch", "error")

\* C25: overlapping SyncCookies calls on one profile behave as if executed one
\* at a time: a cookie the store holds is never lost and its updated_at never
\* decreases, whatever a later write of any call stores.
C25_OverlappingSyncLosesNothing ==
    [][ \A p \in DOMAIN users :
            p \in DOMAIN users'
            => LET old == unmarshalCookies(users[p].cookies)
                   new == unmarshalCookies(users'[p].cookies)
               IN  \A n \in DOMAIN old :
                       n \in DOMAIN new /\ new[n].updated_at >= old[n].updated_at ]_vars

\* C27: when the table is full and nobody in it has been idle for more than
\* a minute, an address that is not in the table is still limited to one
\* request a second: after an admitted request, a second request of the same
\* address in the same second is refused with 429.
C27_FullTableStillLimits ==
    \A ip \in ClientIPs :
        (/\ ip \notin DOMAIN visitors.known
         /\ tableLen(visitors) >= maxVisitors
         /\ deleteIdle(visitors, idleEviction) = visitors)
        => LET first == rateLimitMiddleware(visitors, ip, FALSE)
               second == rateLimitMiddleware(first.visitors, ip, FALSE)
           IN  first.status = 200 => second.status = 429

\* C28: the visitor table of a rate limiter never holds more than maxVisitors
\* entries.
C28_TableIsCapped == tableLen(visitors) <= maxVisitors

\* the table is full, one of its entries being an address that arrived when
\* there was room for one, and the request of another address was served with
\* a limiter the table does not hold
C28_Witness ==
    /\ tableLen(visitors) = maxVisitors
    /\ Cardinality(DOMAIN visitors.known) = 1
    /\ last.op = "request" /\ last.ip \notin DOMAIN visitors.known

\* C29: for 1 <= current <= total and total > 1, the bar starts with page 1,
\* ends with page total, holds current exactly once, its page numbers are
\* strictly increasing, and -1 stands only between two page numbers that are
\* not consecutive: never first, never last, never twice in a row.
C29_PaginationIsWellFormed ==
    (last.op = "pagination" /\ last.total > 1 /\ 1 <= last.current /\ last.current <= last.total)
    => LET pages == last.pages
           n == Len(pages)
       IN  /\ n >= 2
           /\ pages[1] = 1
           /\ pages[n] = last.total
           /\ Cardinality({i \in 1..n : pages[i] = last.current}) = 1
           /\ \A i \in 1..n : pages[i] = -1 \/ (1 <= pages[i] /\ pages[i] <= last.total)
           /\ \A i, j \in 1..n : (i < j /\ pages[i] # -1 /\ pages[j] # -1) => pages[i] < pages[j]
           /\ \A i \in 1..n :
                  pages[i] = -1
                  => /\ 1 < i /\ i < n
                     /\ pages[i - 1] # -1 /\ pages[i + 1] # -1
                     /\ pages[i + 1] - pages[i - 1] > 1

\* the bar of page 6 of 12: a gap on each side of the window
C29_Witness ==
    /\ last.op = "pagination" /\ last.current = 6 /\ last.total = 12
    /\ last.pages = <<1, -1, 4, 5, 6, 7, 8, -1, 12>>

\* C30: after any sequence of chapter inserts, deletes and re-assignments to
\* another novel, the chapters_count of every novel is the number of chapter
\* rows that reference it.
C30_CountMatchesRows ==
    \A n \in DOMAIN novels :
        novels[n].chapters_count =
            Cardinality({c \in DOMAIN chapters : chapters[c].novel_id = n})

\* the id of the chapter of the same novel with the nearest chapter number
\* below (dir = -1) or above (dir = 1) that of chapter c, "" when there is none
Nearest(c, dir) ==
    LET side == {d \in DOMAIN chapters :
                    /\ chapters[d].novel_id = chapters[c].novel_id
                    /\ (chapters[d].chapter_num - chapters[c].chapter_num) * dir > 0}
    IN  IF side = {} THEN ""
        ELSE CHOOSE d \in side :
                 \A x \in side : (chapters[x].chapter_num - chapters[d].chapter_num) * dir >= 0

\* C26: the PrevID and NextID of a Chapter page are the ids of the chapters
\* with the nearest lower and the nearest higher chapter number, empty at
\* the ends, whatever Novel and Chapter requests for the same novel run at
\* the same time.
C26_NeighboursAreNearest ==
    (last.op = "chapter" /\ last.status = "ok")
    => /\ last.prev = Nearest(last.chapter, -1)
       /\ last.next = Nearest(last.chapter, 1)

====
